---- MODULE Spec2Model ----
(***************************************************************************)
(* A model of nitro-img: the lazy Image/Pipeline state machine, the        *)
(* geometry of resize / thumbnail / cover / contain / crop, and the        *)
(* quality search of optimize.                                             *)
(*                                                                         *)
(* Pixel buffers are modelled by what the geometry reads and writes: an    *)
(* object identity, a width, a height and a colour mode.  Python floats    *)
(* are modelled by exact rationals (numerator, denominator); on the sizes  *)
(* the model enumerates, round(x * (n / d)) evaluated in IEEE doubles      *)
(* equals the exact banker's rounding of x*n/d used here.                  *)
(***************************************************************************)
EXTENDS Integers, Sequences, FiniteSets, TLC

VARIABLES
    g_img,      \* geometry: the source buffer handed to the transform
    g_call,     \* geometry: the transform applied and its arguments
    g_out,      \* geometry: the buffer the transform returned
    g_plan      \* geometry: the scaled size and the crop / paste offset used

VARIABLES
    o_codec,    \* optimize: the codec's byte length for each quality parameter
    o_args,     \* optimize: fmt, target_kb, min_quality, max_quality
    o_st        \* optimize: the search's locals, encode count and return value

VARIABLES
    original,       \* Image._original: the buffer loaded, object 0
    source_format,  \* Image._source_format
    pipeline,       \* Image._pipeline._operations
    output_format,  \* Image._output_format
    output_quality, \* Image._output_quality
    auto_format,    \* Image._auto_format
    last            \* the latest output call since the Image last changed

VARIABLES
    c_call,     \* a function called on its own: its name and arguments
    c_out       \* what that call returned or raised

VARIABLES
    b_batch,    \* BatchImage: _paths, _operations, _output_format, _output_quality
    b_args,     \* BatchImage.save's arguments: pattern, parallel, max_workers
    b_main,     \* the thread in save: position, futures submitted, results, return
    b_tasks,    \* each _process_one call: position, its Image, its result
    b_heap      \* objects made by the tasks: Pipelines' operations, files written

geom_vars == <<g_img, g_call, g_out, g_plan>>
opt_vars == <<o_codec, o_args, o_st>>
image_vars == <<original, source_format, pipeline, output_format, output_quality, auto_format>>
call_vars == <<c_call, c_out>>
batch_vars == <<b_batch, b_args, b_main, b_tasks, b_heap>>
vars == <<g_img, g_call, g_out, g_plan, o_codec, o_args, o_st,
          original, source_format, pipeline, output_format, output_quality,
          auto_format, last, c_call, c_out,
          b_batch, b_args, b_main, b_tasks, b_heap>>

\* What each specification leaves alone.
geom_rest == <<opt_vars, image_vars, last, call_vars, batch_vars>>
opt_rest == <<geom_vars, image_vars, last, call_vars, batch_vars>>
image_rest == <<geom_vars, opt_vars, call_vars, batch_vars>>
call_rest == <<geom_vars, opt_vars, image_vars, last, batch_vars>>
batch_rest == <<geom_vars, opt_vars, image_vars, last, call_vars>>

\* ---------------------------------------------------------------- bounds
MaxDim == 5      \* source images are 1..MaxDim pixels on each axis
MaxBox == 6      \* requested widths / heights are 1..MaxBox
MaxQ == 4        \* optimize searches qualities within 0..MaxQ
MaxTargetKB == 2 \* optimize targets are 1..MaxTargetKB kilobytes
MaxOps == 2      \* an Image queues at most MaxOps operations
MaxWidths == 3   \* generate_responsive is asked for at most MaxWidths widths
MaxImages == 2   \* a BatchImage matches at most MaxImages files
MaxRecorded == 2 \* a BatchImage records at most MaxRecorded operations
MaxPixels == 3   \* a sample handed to the quantizer has at most MaxPixels pixels
MaxOpacity == 12 \* watermark opacities are 0.0, 0.1, ... up to MaxOpacity tenths

\* `None` for an omitted width / height argument (dimensions are >= 1).
None == 0

Modes == {"RGB", "RGBA"}
Dims == 1..MaxDim
Boxes == 1..MaxBox

Max(a, b) == IF a >= b THEN a ELSE b
Min(a, b) == IF a <= b THEN a ELSE b
Abs(a) == IF a >= 0 THEN a ELSE -a

\* Python round(n / d) for n >= 0, d > 0: round half to even.
Round(n, d) ==
    LET q == n \div d
        r == n % d
    IN  IF 2 * r < d THEN q
        ELSE IF 2 * r > d THEN q + 1
        ELSE IF q % 2 = 0 THEN q ELSE q + 1

\* A buffer object: identity, size and mode.
NewBuf(nid, w, h, mode) == [id |-> nid, w |-> w, h |-> h, mode |-> mode]

\* A new object derived from img: its size is (w, h), the rest is img's.
Derived(img, nid, w, h) == [img EXCEPT !.id = nid, !.w = w, !.h = h]

\* PIL Image.resize((w, h)): always a new object.
PILResize(img, w, h, nid) == Derived(img, nid, w, h)

\* PIL Image.crop((left, top, right, bottom)): a new object of the box's size.
PILCrop(img, left, top, right, bottom, nid) ==
    Derived(img, nid, right - left, bottom - top)

\* ---------------------------------------------------------------- resize
\* The (target_w, target_h) of resize_fit before the aspect fit.
ResizeTarget(img, width, height) ==
    IF width # None /\ height # None THEN <<width, height>>
    ELSE IF width # None THEN <<width, Round(img.h * width, img.w)>>
    ELSE <<Round(img.w * height, img.h), height>>

\* ResizeRatio taking the larger of the two ratios.
ResizeRatioMax(img, width, height) ==
    LET t == ResizeTarget(img, width, height)
    IN  IF t[1] * img.h >= t[2] * img.w THEN <<t[1], img.w>> ELSE <<t[2], img.h>>

\* ratio = min(target_w / orig_w, target_h / orig_h) as <<num, den>>.
ResizeRatio(img, width, height) ==
    LET t == ResizeTarget(img, width, height)
    IN  IF t[1] * img.h <= t[2] * img.w THEN <<t[1], img.w>> ELSE <<t[2], img.h>>

ResizeFitNoGuard(img, width, height, allow_upscale, nid) ==
    IF width = None /\ height = None THEN img
    ELSE LET ratio == ResizeRatio(img, width, height)
         IN  PILResize(img, Max(1, Round(img.w * ratio[1], ratio[2])),
                            Max(1, Round(img.h * ratio[1], ratio[2])), nid)

ResizeFit(img, width, height, allow_upscale, nid) ==
    IF width = None /\ height = None THEN img
    ELSE LET ratio == ResizeRatio(img, width, height)
         IN  IF ~allow_upscale /\ ratio[1] > ratio[2] THEN img
             ELSE PILResize(img, Max(1, Round(img.w * ratio[1], ratio[2])),
                                 Max(1, Round(img.h * ratio[1], ratio[2])), nid)

\* ------------------------------------------------------------- thumbnail
\* PIL round_aspect: of floor and ceil of n/d, the one whose aspect is
\* closer (keyF, keyC are the two distances scaled by a common factor);
\* min() keeps the floor on equal keys, but the keys are floats, so an exact
\* tie is decided by rounding noise: tieUp is that outcome.
RoundAspect(f, c, keyF, keyC, tieUp) ==
    Max(IF keyF < keyC THEN f
        ELSE IF keyC < keyF THEN c
        ELSE IF tieUp THEN c ELSE f, 1)

\* PIL Image.thumbnail((x, y)): the final size (the image's own when it fits).
PILThumbnailSize(W, H, x, y, tieUp) ==
    IF x >= W /\ y >= H THEN <<W, H>>
    ELSE IF x * H >= W * y
         THEN LET f == (y * W) \div H
                  c == IF (y * W) % H = 0 THEN f ELSE f + 1
              IN  <<RoundAspect(f, c, Abs(W * y - f * H), Abs(W * y - c * H), tieUp), y>>
         ELSE LET f == (x * H) \div W
                  c == IF (x * H) % W = 0 THEN f ELSE f + 1
                  keyF == IF f = 0 THEN 0 ELSE Abs(W * f - x * H) * c
                  keyC == IF c = 0 THEN 0 ELSE Abs(W * c - x * H) * f
              IN  <<x, RoundAspect(f, c, keyF, keyC, tieUp)>>

Thumbnail(img, width, height, allow_upscale, nid, tieUp) ==
    IF ~allow_upscale /\ img.w <= width /\ img.h <= height THEN img
    ELSE LET s == PILThumbnailSize(img.w, img.h, width, height, tieUp)
         IN  Derived(img, nid, s[1], s[2])

\* ----------------------------------------------------------------- cover
\* _center_crop: the box and the cropped buffer.
CenterCropBox(img, width, height) ==
    LET left == (img.w - width) \div 2
        top == (img.h - height) \div 2
    IN  [left |-> left, top |-> top, right |-> left + width, bottom |-> top + height]

CenterCrop(img, width, height, nid) ==
    LET b == CenterCropBox(img, width, height)
    IN  PILCrop(img, b.left, b.top, b.right, b.bottom, nid)

CoverRatioMin(img, width, height) ==
    IF width * img.h <= height * img.w THEN <<width, img.w>> ELSE <<height, img.h>>

\* ratio = max(width / orig_w, height / orig_h) as <<num, den>>.
CoverRatio(img, width, height) ==
    IF width * img.h >= height * img.w THEN <<width, img.w>> ELSE <<height, img.h>>

CoverNeedsUpscale(img, width, height) ==
    LET ratio == CoverRatio(img, width, height) IN ratio[1] > ratio[2]

\* The resized image cover() crops from (the source itself in the fallback).
CoverScaled(img, width, height, allow_upscale, nid) ==
    LET ratio == CoverRatio(img, width, height)
    IN  IF ~allow_upscale /\ CoverNeedsUpscale(img, width, height) THEN img
        ELSE PILResize(img, Max(1, Round(img.w * ratio[1], ratio[2])),
                            Max(1, Round(img.h * ratio[1], ratio[2])), nid)

\* cover without the fallback branch.
CoverNoFallback(img, width, height, allow_upscale, nid) ==
    CenterCrop(PILResize(img, Max(1, Round(img.w * CoverRatio(img, width, height)[1],
                                           CoverRatio(img, width, height)[2])),
                              Max(1, Round(img.h * CoverRatio(img, width, height)[1],
                                           CoverRatio(img, width, height)[2])), nid),
               width, height, nid)

Cover(img, width, height, allow_upscale, nid) ==
    IF ~allow_upscale /\ CoverNeedsUpscale(img, width, height)
    THEN CenterCrop(img, Min(width, img.w), Min(height, img.h), nid)
    ELSE CenterCrop(CoverScaled(img, width, height, allow_upscale, nid), width, height, nid)

\* --------------------------------------------------------------- contain
ContainRatioMax(img, width, height, allow_upscale) ==
    LET ratio == IF width * img.h >= height * img.w
                 THEN <<width, img.w>> ELSE <<height, img.h>>
    IN  IF ~allow_upscale /\ ratio[1] > ratio[2] THEN <<1, 1>> ELSE ratio

\* ratio = min(width / orig_w, height / orig_h), clamped to 1 without upscaling.
ContainRatio(img, width, height, allow_upscale) ==
    LET ratio == IF width * img.h <= height * img.w
                 THEN <<width, img.w>> ELSE <<height, img.h>>
    IN  IF ~allow_upscale /\ ratio[1] > ratio[2] THEN <<1, 1>> ELSE ratio

\* The resized image and the offsets contain() pastes it at.
ContainPlan(img, width, height, allow_upscale) ==
    LET ratio == ContainRatio(img, width, height, allow_upscale)
        new_w == Max(1, Round(img.w * ratio[1], ratio[2]))
        new_h == Max(1, Round(img.h * ratio[1], ratio[2]))
    IN  [new_w |-> new_w, new_h |-> new_h,
         offset_x |-> (width - new_w) \div 2, offset_y |-> (height - new_h) \div 2]

\* The canvas: exactly the requested size, RGBA only for an RGBA input.
Contain(img, width, height, allow_upscale, nid) ==
    [Derived(img, nid, width, height) EXCEPT
        !.mode = IF img.mode = "RGBA" THEN "RGBA" ELSE "RGB"]

\* ------------------------------------------------------------------ crop
\* _ANCHOR_MAP in halves: (ax, ay) = (a[1] / 2, a[2] / 2); unknown -> center.
Anchors == {"center", "top-left", "top", "top-right", "left", "right",
            "bottom-left", "bottom", "bottom-right"}

AnchorMap(anchor) ==
    CASE anchor = "center" -> <<1, 1>>
      [] anchor = "top-left" -> <<0, 0>>
      [] anchor = "top" -> <<1, 0>>
      [] anchor = "top-right" -> <<2, 0>>
      [] anchor = "left" -> <<0, 1>>
      [] anchor = "right" -> <<2, 1>>
      [] anchor = "bottom-left" -> <<0, 2>>
      [] anchor = "bottom" -> <<1, 2>>
      [] anchor = "bottom-right" -> <<2, 2>>
      [] OTHER -> <<1, 1>>

\* int(x * a / 2) for x * a >= 0: truncation is the floor.
IntHalves(x, a) == (x * a) \div 2

CropBoxNoClamp(img, width, height, anchor) ==
    LET a == AnchorMap(anchor)
        left == IntHalves(Max(0, img.w - width), a[1])
        top == IntHalves(Max(0, img.h - height), a[2])
    IN  [left |-> left, top |-> top, right |-> left + width, bottom |-> top + height]

CropBox(img, width, height, anchor) ==
    LET crop_w == Min(width, img.w)
        crop_h == Min(height, img.h)
        a == AnchorMap(anchor)
        left == IntHalves(img.w - crop_w, a[1])
        top == IntHalves(img.h - crop_h, a[2])
    IN  [left |-> left, top |-> top, right |-> left + crop_w, bottom |-> top + crop_h]

Crop(img, width, height, anchor, nid) ==
    LET b == CropBox(img, width, height, anchor)
    IN  PILCrop(img, b.left, b.top, b.right, b.bottom, nid)

\* ================================================================ encode
Formats == {"JPEG", "PNG", "WEBP", "GIF", "BMP", "TIFF"}
QualityFormats == {"JPEG", "WEBP"}

\* `None` for an omitted quality argument (0 is a quality a caller can pass).
NoQuality == -1

\* config.default_jpeg_quality, config.default_webp_quality
DefaultJpegQuality == 85
DefaultWebpQuality == 80

\* Python `quality or default`: None and 0 are both falsy.
QualityOrKeepZero(quality, default) == IF quality = NoQuality THEN default ELSE quality

QualityOr(quality, default) ==
    IF quality = NoQuality \/ quality = 0 THEN default ELSE quality

\* params["quality"] as encode() hands it to the codec (absent: NoQuality).
EncodeParam(fmt, quality) ==
    IF fmt = "JPEG" THEN QualityOr(quality, DefaultJpegQuality)
    ELSE IF fmt = "WEBP" THEN QualityOr(quality, DefaultWebpQuality)
    ELSE NoQuality

\* The quality parameters the codec of fmt can be handed by the model.
CodecParams(fmt) ==
    IF fmt = "JPEG" THEN (1..MaxQ) \cup {DefaultJpegQuality}
    ELSE IF fmt = "WEBP" THEN (1..MaxQ) \cup {DefaultWebpQuality}
    ELSE {NoQuality}

\* encode(img, fmt, quality=quality): the bytes, by format, codec parameter
\* and length; codec maps the parameter to the length of the encoding.
Encode(codec, fmt, quality) ==
    LET q == EncodeParam(fmt, quality)
    IN  [fmt |-> fmt, quality |-> q, len |-> codec[q]]

NoData == [fmt |-> "none", quality |-> NoQuality, len |-> 0]

\* ============================================================== optimize
BytesPerKB == 1024

TargetBytes(target_kb) == target_kb * BytesPerKB

OptReturn(st, data, quality) ==
    [st EXCEPT !.pc = "done", !.data = data, !.quality = quality]

\* OptStart entering the loop even when the max_quality encoding fits.
OptStartNoEarlyReturn(codec, fmt, target_kb, min_quality, max_quality) ==
    IF fmt \notin QualityFormats
    THEN OptReturn([pc |-> "start", lo |-> min_quality, hi |-> max_quality,
                    best_data |-> NoData, best_quality |-> max_quality,
                    encodes |-> 1, data |-> NoData, quality |-> NoQuality],
                   Encode(codec, fmt, NoQuality), 0)
    ELSE [pc |-> "loop", lo |-> min_quality, hi |-> max_quality,
          best_data |-> NoData, best_quality |-> max_quality,
          encodes |-> 1, data |-> NoData, quality |-> NoQuality]

\* optimize() up to the loop: the format test and the max_quality attempt.
OptStart(codec, fmt, target_kb, min_quality, max_quality) ==
    LET st0 == [pc |-> "start", lo |-> min_quality, hi |-> max_quality,
                best_data |-> NoData, best_quality |-> max_quality,
                encodes |-> 1, data |-> NoData, quality |-> NoQuality]
    IN  IF fmt \notin QualityFormats
        THEN OptReturn(st0, Encode(codec, fmt, NoQuality), 0)
        ELSE LET data == Encode(codec, fmt, max_quality)
             IN  IF data.len <= TargetBytes(target_kb)
                 THEN OptReturn(st0, data, max_quality)
                 ELSE [st0 EXCEPT !.pc = "loop"]

OptIterKeepsLast(codec, fmt, target_kb, st) ==
    LET mid == (st.lo + st.hi) \div 2
        data == Encode(codec, fmt, mid)
        kept == [st EXCEPT !.best_data = data, !.best_quality = mid, !.encodes = @ + 1]
    IN  IF data.len <= TargetBytes(target_kb)
        THEN [kept EXCEPT !.lo = mid + 1]
        ELSE [kept EXCEPT !.hi = mid - 1]

OptIterSearchesLower(codec, fmt, target_kb, st) ==
    LET mid == (st.lo + st.hi) \div 2
        data == Encode(codec, fmt, mid)
    IN  IF data.len <= TargetBytes(target_kb)
        THEN [st EXCEPT !.best_data = data, !.best_quality = mid,
                        !.hi = mid - 1, !.encodes = @ + 1]
        ELSE [st EXCEPT !.lo = mid + 1, !.encodes = @ + 1]

\* One iteration of `while lo <= hi`.
OptIter(codec, fmt, target_kb, st) ==
    LET mid == (st.lo + st.hi) \div 2
        data == Encode(codec, fmt, mid)
    IN  IF data.len <= TargetBytes(target_kb)
        THEN [st EXCEPT !.best_data = data, !.best_quality = mid,
                        !.lo = mid + 1, !.encodes = @ + 1]
        ELSE [st EXCEPT !.hi = mid - 1, !.encodes = @ + 1]

OptExitReportsBest(codec, fmt, min_quality, st) ==
    IF st.best_data # NoData
    THEN OptReturn(st, st.best_data, st.best_quality)
    ELSE OptReturn([st EXCEPT !.encodes = @ + 1],
                   Encode(codec, fmt, min_quality), st.best_quality)

\* After the loop: the best fit, else the min_quality encoding.
OptExit(codec, fmt, min_quality, st) ==
    IF st.best_data # NoData
    THEN OptReturn(st, st.best_data, st.best_quality)
    ELSE OptReturn([st EXCEPT !.encodes = @ + 1],
                   Encode(codec, fmt, min_quality), min_quality)

\* ============================================================== pipeline
\* An Operation: its name and the arguments its closure captured.
Operation(name, width, height, allow_upscale, anchor, source) ==
    [name |-> name, width |-> width, height |-> height,
     allow_upscale |-> allow_upscale, anchor |-> anchor, source |-> source]

\* No buffer (a call that returned none).
NoBuf == [id |-> -1, w |-> 0, h |-> 0, mode |-> "none", opaque |-> TRUE]

\* The outcome of calling a transform: a buffer, or an exception.
Return(img) == [ok |-> TRUE, img |-> img, cause |-> "none"]
Raise(cause) == [ok |-> FALSE, img |-> NoBuf, cause |-> cause]

\* The files PILImage.open can read.
Files == {"logo.png"}

\* watermark._watermark: PILImage.open raises on a missing file; the
\* composite is a new object, flattened to RGB for an RGB base.
Watermark(img, source, nid) ==
    IF source \notin Files THEN Raise("FileNotFoundError")
    ELSE Return([Derived(img, nid, img.w, img.h) EXCEPT
                    !.mode = IF img.mode = "RGB" THEN "RGB" ELSE "RGBA"])

\* text_overlay._text_overlay: the text layer is composited in RGBA and the
\* result is a new object, flattened to RGB for an RGB base.
TextOverlay(img, nid) ==
    Return([Derived(img, nid, img.w, img.h) EXCEPT
               !.mode = IF img.mode = "RGB" THEN "RGB" ELSE "RGBA"])

\* round(x) of the float product x = n / d: to nearest; where n / d lies
\* exactly between two integers the product's rounding error decides, and
\* tieUp is that outcome.
RoundProduct(n, d, tieUp) ==
    IF 2 * (n % d) < d THEN n \div d
    ELSE IF 2 * (n % d) > d THEN (n \div d) + 1
    ELSE IF tieUp THEN (n \div d) + 1 ELSE n \div d

OpacityAlphaAlways(a, opacity, tieUp) == RoundProduct(a * opacity[1], opacity[2], tieUp)

\* if opacity < 1.0: a = a.point(lambda x: round(x * opacity)), for one
\* alpha value a of the overlay; opacity is <<num, den>>.
OpacityAlpha(a, opacity, tieUp) ==
    IF opacity[1] < opacity[2]
    THEN RoundProduct(a * opacity[1], opacity[2], tieUp)
    ELSE a

\* op.fn(img): the closure of each chainable method.  thumbnail's aspect
\* keys are compared exactly here (min() keeps the floor on equal keys).
OpFn(op, img, nid) ==
    CASE op.name = "resize" ->
           Return(ResizeFit(img, op.width, op.height, op.allow_upscale, nid))
      [] op.name = "thumbnail" ->
           Return(Thumbnail(img, op.width, op.height, op.allow_upscale, nid, FALSE))
      [] op.name = "cover" ->
           Return(Cover(img, op.width, op.height, op.allow_upscale, nid))
      [] op.name = "contain" ->
           Return(Contain(img, op.width, op.height, op.allow_upscale, nid))
      [] op.name = "crop" ->
           Return(Crop(img, op.width, op.height, op.anchor, nid))
      [] op.name = "watermark" ->
           Watermark(img, op.source, nid)

\* Pipeline.add
PipelineAdd(operations, op) == Append(operations, op)

\* Pipeline.execute from operation i on: trace lists every invocation made.
\* The result is the returned buffer, or the ImageProcessingError raised.
RECURSIVE ExecFrom(_, _, _, _)
RECURSIVE ExecFromSkipping(_, _, _, _)

\* One invocation as the trace keeps it.
Invoked(op, img, r) == [op |-> op, in |-> img, ok |-> r.ok, out |-> r.img]

ExecStepSkipping(operations, i, img, trace, r) ==
    ExecFromSkipping(operations, i + 1, IF r.ok THEN r.img ELSE img,
                     Append(trace, Invoked(operations[i], img, r)))

ExecFromSkipping(operations, i, img, trace) ==
    IF i > Len(operations)
    THEN [ok |-> TRUE, img |-> img, trace |-> trace,
          failed |-> 0, name |-> "none", cause |-> "none"]
    ELSE ExecStepSkipping(operations, i, img, trace, OpFn(operations[i], img, i + 1))

\* The body of the loop for operation i, r being what op.fn(img) gave:
\* carry on with the returned buffer, or raise ImageProcessingError.
ExecStep(operations, i, img, trace, r) ==
    IF r.ok
    THEN ExecFrom(operations, i + 1, r.img, Append(trace, Invoked(operations[i], img, r)))
    ELSE [ok |-> FALSE, img |-> NoBuf,
          trace |-> Append(trace, Invoked(operations[i], img, r)),
          failed |-> i, name |-> operations[i].name, cause |-> r.cause]

ExecFrom(operations, i, img, trace) ==
    IF i > Len(operations)
    THEN [ok |-> TRUE, img |-> img, trace |-> trace,
          failed |-> 0, name |-> "none", cause |-> "none"]
    ELSE ExecStep(operations, i, img, trace, OpFn(operations[i], img, i + 1))

Reverse(seq) == [i \in 1..Len(seq) |-> seq[Len(seq) + 1 - i]]

PipelineExecuteReversed(operations, img) == ExecFrom(Reverse(operations), 1, img, <<>>)

PipelineExecuteSkipping(operations, img) == ExecFromSkipping(operations, 1, img, <<>>)

\* Pipeline.execute
PipelineExecute(operations, img) == ExecFrom(operations, 1, img, <<>>)

\* PIL Image.copy(): a new object (object 1) with the same content.
Copy(img) == [img EXCEPT !.id = 1]

ImageExecuteNoCopy(image_original, operations) == PipelineExecute(operations, image_original)

\* Image._execute
ImageExecute(image_original, operations) == PipelineExecute(operations, Copy(image_original))

\* ================================================================ formats
NoFormat == "NONE"

NoPath == [stem |-> "", ext |-> ""]

\* str.lower() on the extensions the model uses.
Lower(ext) ==
    CASE ext = ".JPG" -> ".jpg"
      [] ext = ".PNG" -> ".png"
      [] ext = ".WEBP" -> ".webp"
      [] OTHER -> ext

\* _EXT_TO_FORMAT.get(ext)
ExtToFormat(ext) ==
    CASE ext = ".jpg" -> "JPEG"
      [] ext = ".jpeg" -> "JPEG"
      [] ext = ".png" -> "PNG"
      [] ext = ".webp" -> "WEBP"
      [] ext = ".gif" -> "GIF"
      [] ext = ".bmp" -> "BMP"
      [] ext = ".tiff" -> "TIFF"
      [] ext = ".tif" -> "TIFF"
      [] OTHER -> NoFormat

\* os.path.splitext on a name written stem + ext, where stem has no dot and
\* ext is empty or a dot followed by dot-free text: a leading dot does not
\* start an extension, so a name that is only ".jpg" has no extension.
SplitExt(path) ==
    IF path.stem = "" THEN [root |-> path.ext, ext |-> ""]
    ELSE [root |-> path.stem, ext |-> path.ext]

\* format_from_extension(path): os.path.splitext(path)[1].lower(), looked up.
FormatFromExtension(path) == ExtToFormat(Lower(SplitExt(path).ext))

\* _EXT_TO_FORMAT.items(), in the dict's insertion order.
ExtItems ==
    << <<".jpg", "JPEG">>, <<".jpeg", "JPEG">>, <<".png", "PNG">>, <<".webp", "WEBP">>,
       <<".gif", "GIF">>, <<".bmp", "BMP">>, <<".tiff", "TIFF">>, <<".tif", "TIFF">> >>

ExtensionForFormatNoMatch(fmt) == ".bin"

\* extension_for_format(fmt): the first extension of the table mapped to fmt.
ExtensionForFormat(fmt) ==
    IF \E i \in 1..Len(ExtItems) : ExtItems[i][2] = fmt
    THEN ExtItems[CHOOSE i \in 1..Len(ExtItems) :
                    /\ ExtItems[i][2] = fmt
                    /\ \A j \in 1..(i - 1) : ExtItems[j][2] # fmt][1]
    ELSE ".bin"

\* A string given as the path argument: a bare extension is a name that
\* starts with its dot.
AsPath(name) == [stem |-> "", ext |-> name]

\* mime_type(fmt)
MimeType(fmt) ==
    CASE fmt = "JPEG" -> "image/jpeg"
      [] fmt = "PNG" -> "image/png"
      [] fmt = "WEBP" -> "image/webp"
      [] fmt = "GIF" -> "image/gif"
      [] fmt = "BMP" -> "image/bmp"
      [] fmt = "TIFF" -> "image/tiff"
      [] OTHER -> "application/octet-stream"

ResolveFormatSourceFirst(out_fmt, src_fmt, path) ==
    IF out_fmt # NoFormat THEN out_fmt
    ELSE IF src_fmt # NoFormat THEN src_fmt
    ELSE IF path # NoPath THEN FormatFromExtension(path)
    ELSE NoFormat

\* Image._resolve_format(path): NoFormat stands for raising ImageFormatError.
ResolveFormat(out_fmt, src_fmt, path) ==
    IF out_fmt # NoFormat THEN out_fmt
    ELSE IF path # NoPath /\ FormatFromExtension(path) # NoFormat
         THEN FormatFromExtension(path)
    ELSE IF src_fmt # NoFormat THEN src_fmt
    ELSE NoFormat

\* ---------------------------------------------------- encoding a buffer
\* A stand-in for the codec: the byte length of img encoded as fmt with
\* quality parameter q (NoQuality for a format that takes none).
CodecLen(img, fmt, q) ==
    IF fmt = "JPEG" THEN 20 + img.w * img.h * q
    ELSE IF fmt = "WEBP" THEN 30 + img.w * img.h * (q - 1)
    ELSE 40 + img.w * img.h * 3

\* The codec of img for fmt, on the quality parameters `domain`.
CodecOf(img, fmt, domain) == [q \in domain |-> CodecLen(img, fmt, q)]

\* encode(img, fmt, quality=quality) with the encoded image's size.
EncodeImage(img, fmt, quality) ==
    LET e == Encode(CodecOf(img, fmt, {EncodeParam(fmt, quality)}), fmt, quality)
    IN  [fmt |-> e.fmt, quality |-> e.quality, len |-> e.len, w |-> img.w, h |-> img.h]

NoBytes == [fmt |-> "none", quality |-> NoQuality, len |-> 0, w |-> 0, h |-> 0]

\* auto_format(img, quality): PNG for a used alpha channel, else the
\* shorter of WEBP and JPEG (WEBP on a tie); encodes counts encode calls.
\* has_alpha as auto_format computes it: the mode has an alpha channel, and
\* for RGBA only, the channel's extrema are not (255, 255).
HasAlpha(img) ==
    /\ img.mode \in {"RGBA", "LA", "PA"}
    /\ ~(img.mode = "RGBA" /\ img.opaque)

\* auto_format's choice among the encodings it makes.
AutoFormatChoice(img, png_data, webp_data, jpeg_data) ==
    IF HasAlpha(img)
    THEN [data |-> png_data, fmt |-> "PNG", encodes |-> 1]
    ELSE IF webp_data.len <= jpeg_data.len
         THEN [data |-> webp_data, fmt |-> "WEBP", encodes |-> 2]
         ELSE [data |-> jpeg_data, fmt |-> "JPEG", encodes |-> 2]

AutoFormat(img, quality) ==
    AutoFormatChoice(img, EncodeImage(img, "PNG", NoQuality),
                     EncodeImage(img, "WEBP", quality), EncodeImage(img, "JPEG", quality))

\* optimize(): the loop run to its return.
RECURSIVE OptRun(_, _, _, _, _)
OptRun(codec, fmt, target_kb, min_quality, st) ==
    IF st.pc = "done" THEN st
    ELSE IF st.lo <= st.hi
         THEN OptRun(codec, fmt, target_kb, min_quality, OptIter(codec, fmt, target_kb, st))
         ELSE OptExit(codec, fmt, min_quality, st)

Optimize(codec, fmt, target_kb, min_quality, max_quality) ==
    OptRun(codec, fmt, target_kb, min_quality,
           OptStart(codec, fmt, target_kb, min_quality, max_quality))

\* ------------------------------------------------------------ responsive
\* results[key] = value on a dict kept as its items in insertion order.
DictSet(items, key, value) ==
    IF \E i \in 1..Len(items) : items[i].key = key
    THEN [i \in 1..Len(items) |->
            IF items[i].key = key THEN [key |-> key, value |-> value] ELSE items[i]]
    ELSE Append(items, [key |-> key, value |-> value])

Unsorted(widths) == widths

\* sorted(widths)
Sorted(widths) == SortSeq(widths, LAMBDA a, b : a < b)

RECURSIVE ResponsiveFrom(_, _, _, _, _, _, _)
ResponsiveFrom(img, widths, i, fmt, quality, allow_upscale, results) ==
    IF i > Len(widths) THEN results
    ELSE LET width == widths[i]
             ratio == IF ~allow_upscale /\ width > img.w THEN <<1, 1>> ELSE <<width, img.w>>
             new_w == Max(1, Round(img.w * ratio[1], ratio[2]))
             new_h == Max(1, Round(img.h * ratio[1], ratio[2]))
             resized == PILResize(img, new_w, new_h, img.id + i)
         IN  ResponsiveFrom(img, widths, i + 1, fmt, quality, allow_upscale,
                            DictSet(results, new_w, EncodeImage(resized, fmt, quality)))

\* generate_responsive(img, widths, fmt=, quality=, allow_upscale=)
GenerateResponsive(img, widths, fmt, quality, allow_upscale) ==
    ResponsiveFrom(img, Sorted(widths), 1, fmt, quality, allow_upscale, <<>>)

\* output_dir / f"{name}_{width}{ext}"
OutName(output_dir, name, width, ext) ==
    [dir |-> output_dir, stem |-> name \o "_" \o ToString(width), ext |-> ext]

\* The loop of save_responsive over sizes.items(): the files written and
\* the map {width: path} returned.
SaveSizes(sizes, output_dir, name, ext) ==
    [results |-> [i \in 1..Len(sizes) |->
                    [key |-> sizes[i].key,
                     value |-> OutName(output_dir, name, sizes[i].key, ext)]],
     written |-> {[path |-> OutName(output_dir, name, sizes[i].key, ext),
                   data |-> sizes[i].value] : i \in 1..Len(sizes)}]

\* save_responsive(img, widths, output_dir, name, fmt=, quality=, allow_upscale=)
SaveResponsive(img, widths, output_dir, name, fmt, quality, allow_upscale) ==
    SaveSizes(GenerateResponsive(img, widths, fmt, quality, allow_upscale),
              output_dir, name, ExtensionForFormat(fmt))

\* ===================================================== the Image object
DefaultMinQuality == 10
DefaultMaxQuality == 95

\* config.allow_upscale
ConfigAllowUpscale == FALSE

\* The images the model loads.
Originals ==
    {[id |-> 0, w |-> 4, h |-> 3, mode |-> "RGB", opaque |-> TRUE],
     [id |-> 0, w |-> 3, h |-> 5, mode |-> "RGBA", opaque |-> FALSE]}

SourceFormats == {NoFormat, "JPEG"}
QualityArgs == {NoQuality, 60}
SavePaths == {[stem |-> "out", ext |-> ".webp"], [stem |-> "OUT", ext |-> ".JPG"],
              [stem |-> "noext", ext |-> ""]}
ResponsiveWidths == {<<3, 1, 9>>}
WatermarkSources == {"logo.png", "missing.png"}

NoOutput == [status |-> "none"]

Call(method, path) == [method |-> method, path |-> path]

NotExecuted ==
    [ok |-> FALSE, img |-> NoBuf, trace |-> <<>>,
     failed |-> 0, name |-> "none", cause |-> "none"]

\* The buffer Pipeline.execute was handed (NoBuf when it was not called).
ExecStart(ex) ==
    IF ex.trace # <<>> THEN ex.trace[1].in ELSE ex.img

\* What an output method returned or raised, with what it did on the way.
Outcome(call, status, ex, fmt, value, sizes, mime, encodes) ==
    [call |-> call, status |-> status,
     start |-> ExecStart(ex), trace |-> ex.trace,
     failed |-> ex.failed, name |-> ex.name, cause |-> ex.cause,
     img |-> IF status = "ok" THEN ex.img ELSE NoBuf,
     fmt |-> fmt, value |-> value, sizes |-> sizes, mime |-> mime,
     encodes |-> encodes]

\* The encode of an executed buffer with a resolved format.
Encoded(call, mimed, ex, fmt) ==
    IF fmt = NoFormat
    THEN Outcome(call, "ImageFormatError", ex, NoFormat, NoBytes, <<>>, "", 0)
    ELSE Outcome(call, "ok", ex, fmt, EncodeImage(ex.img, fmt, output_quality), <<>>,
                 IF mimed THEN MimeType(fmt) ELSE "", 1)

\* The auto_format branch: af is what auto_format(img, quality) returned.
AutoEncoded(call, mimed, ex, af) ==
    Outcome(call, "ok", ex, af.fmt, af.data, <<>>,
            IF mimed THEN MimeType(af.fmt) ELSE "", af.encodes)

\* After img = self._execute(): the auto_format branch or
\* _resolve_format(path), then encode.
AfterExecute(call, mimed, ex) ==
    IF ~ex.ok
    THEN Outcome(call, "ImageProcessingError", ex, NoFormat, NoBytes, <<>>, "", 0)
    ELSE IF auto_format /\ output_format = NoFormat
    THEN AutoEncoded(call, mimed, ex, AutoFormat(ex.img, output_quality))
    ELSE Encoded(call, mimed, ex, ResolveFormat(output_format, source_format, call.path))

\* save / to_bytes / to_base64 / to_data_uri / to_response
ExecuteThenEncode(call, mimed) ==
    AfterExecute(call, mimed, ImageExecute(original, pipeline))

\* The qualities the search can hand the codec.
SearchDomain(fmt, min_quality, max_quality) ==
    IF fmt \in QualityFormats
    THEN Min(min_quality, max_quality)..Max(min_quality, max_quality)
    ELSE {NoQuality}

\* The bytes optimize() returned for the executed buffer.
Optimized(call, ex, fmt, st) ==
    Outcome(call, "ok", ex, fmt,
            [fmt |-> st.data.fmt, quality |-> st.data.quality,
             len |-> st.data.len, w |-> ex.img.w, h |-> ex.img.h],
            <<>>, "", st.encodes)

OptimizeExecuted(call, target_kb, min_quality, max_quality, fmt, ex) ==
    IF ~ex.ok
    THEN Outcome(call, "ImageProcessingError", ex, NoFormat, NoBytes, <<>>, "", 0)
    ELSE Optimized(call, ex, fmt,
                   Optimize(CodecOf(ex.img, fmt, SearchDomain(fmt, min_quality, max_quality)),
                            fmt, target_kb, min_quality, max_quality))

OptimizeResolved(call, target_kb, min_quality, max_quality, fmt) ==
    IF fmt = NoFormat
    THEN Outcome(call, "ImageFormatError", NotExecuted, NoFormat, NoBytes, <<>>, "", 0)
    ELSE OptimizeExecuted(call, target_kb, min_quality, max_quality, fmt,
                          ImageExecute(original, pipeline))

\* Image.optimize: _resolve_format(), then _execute(), then the search.
ResolveThenOptimize(call, target_kb, min_quality, max_quality) ==
    OptimizeResolved(call, target_kb, min_quality, max_quality,
                     ResolveFormat(output_format, source_format, NoPath))

\* fmt or self._output_format or self._source_format or Format.WEBP
ResponsiveFormat(fmt) ==
    IF fmt # NoFormat THEN fmt
    ELSE IF output_format # NoFormat THEN output_format
    ELSE IF source_format # NoFormat THEN source_format
    ELSE "WEBP"

ResponsiveExecuted(call, widths, out_fmt, quality, allow_upscale, ex) ==
    IF ~ex.ok
    THEN Outcome(call, "ImageProcessingError", ex, NoFormat, NoBytes, <<>>, "", 0)
    ELSE Outcome(call, "ok", ex, out_fmt, NoBytes,
                 GenerateResponsive(ex.img, widths, out_fmt, quality, allow_upscale),
                 "", Len(widths))

\* Image.responsive
ExecuteThenResponsive(call, widths, fmt, quality, allow_upscale) ==
    ResponsiveExecuted(call, widths, ResponsiveFormat(fmt),
                       QualityOr(quality, output_quality),
                       allow_upscale, ImageExecute(original, pipeline))

\* ------------------------------------------------------ chainable methods
\* self._pipeline.add(name, fn); return self
Chain(op) ==
    /\ Len(pipeline) < MaxOps
    /\ pipeline' = PipelineAdd(pipeline, op)
    /\ last' = NoOutput
    /\ UNCHANGED <<original, source_format, output_format, output_quality, auto_format>>

ImageResizeEager ==
    /\ Len(pipeline) < MaxOps
    /\ \E width \in {2} :
         LET op == Operation("resize", width, None, ConfigAllowUpscale, "center", "")
         IN  /\ pipeline' = PipelineAdd(pipeline, op)
             /\ original' = [OpFn(op, original, 0).img EXCEPT !.id = 0]
    /\ last' = NoOutput
    /\ UNCHANGED <<source_format, output_format, output_quality, auto_format>>

ImageResize ==
    \E width \in {2} :
        Chain(Operation("resize", width, None, ConfigAllowUpscale, "center", ""))

ImageThumbnail ==
    \E size \in {<<2, 2>>} :
        Chain(Operation("thumbnail", size[1], size[2], ConfigAllowUpscale, "center", ""))

ImageCover ==
    \E size \in {<<3, 2>>} :
        Chain(Operation("cover", size[1], size[2], ConfigAllowUpscale, "center", ""))

ImageContain ==
    \E size \in {<<3, 3>>} :
        Chain(Operation("contain", size[1], size[2], ConfigAllowUpscale, "center", ""))

ImageCrop ==
    \E size \in {<<2, 3>>}, anchor \in {"top-left"} :
        Chain(Operation("crop", size[1], size[2], FALSE, anchor, ""))

ImageWatermark ==
    \E source \in WatermarkSources :
        Chain(Operation("watermark", None, None, FALSE, "bottom-right", source))

\* ------------------------------------------------------- format selection
Select(fmt, quality, flag) ==
    /\ output_format' = fmt
    /\ output_quality' = quality
    /\ auto_format' = flag
    /\ last' = NoOutput
    /\ UNCHANGED <<original, source_format, pipeline>>

ImageJpeg == \E quality \in QualityArgs : Select("JPEG", quality, auto_format)

ImagePng == Select("PNG", output_quality, auto_format)

ImageWebp == \E quality \in QualityArgs : Select("WEBP", quality, auto_format)

ImageAutoFormat == Select(output_format, output_quality, TRUE)

\* ---------------------------------------------------------- output methods
Output(result) ==
    /\ last' = result
    /\ UNCHANGED image_vars

ImageSave == \E path \in SavePaths : Output(ExecuteThenEncode(Call("save", path), FALSE))

ImageToBytes == Output(ExecuteThenEncode(Call("to_bytes", NoPath), FALSE))

ImageToBase64 == Output(ExecuteThenEncode(Call("to_base64", NoPath), FALSE))

ImageToDataUri == Output(ExecuteThenEncode(Call("to_data_uri", NoPath), TRUE))

ImageToResponse == Output(ExecuteThenEncode(Call("to_response", NoPath), TRUE))

ImageResponsive ==
    \E widths \in ResponsiveWidths :
        Output(ExecuteThenResponsive(Call("responsive", NoPath), widths,
                                     NoFormat, NoQuality, FALSE))

ImageOptimize ==
    \E target_kb \in {1} :
        Output(ResolveThenOptimize(Call("optimize", NoPath), target_kb,
                                   DefaultMinQuality, DefaultMaxQuality))

\* ---- framework responses: integrations.py behind Image.to_*_response ----
\* to_django_response / to_flask_response / to_fastapi_response(img, fmt),
\* with the framework installed: encode, and the response with its type.
FrameworkExecuted(call, fmt, ex) ==
    IF ~ex.ok
    THEN Outcome(call, "ImageProcessingError", ex, NoFormat, NoBytes, <<>>, "", 0)
    ELSE Outcome(call, "ok", ex, fmt, EncodeImage(ex.img, fmt, output_quality), <<>>,
                 MimeType(fmt), 1)

\* The response methods with _execute() called before the format is looked at.
FrameworkExecutesFirst(call, fmt) ==
    IF ~ImageExecute(original, pipeline).ok \/ fmt # NoFormat
    THEN FrameworkExecuted(call, fmt, ImageExecute(original, pipeline))
    ELSE Outcome(call, "ImageFormatError", ImageExecute(original, pipeline),
                 NoFormat, NoBytes, <<>>, "", 0)

\* fmt = self._resolve_format(); img = self._execute(); the response.
FrameworkResolved(call, fmt) ==
    IF fmt = NoFormat
    THEN Outcome(call, "ImageFormatError", NotExecuted, NoFormat, NoBytes, <<>>, "", 0)
    ELSE FrameworkExecuted(call, fmt, ImageExecute(original, pipeline))

ImageToDjangoResponse ==
    Output(FrameworkResolved(Call("to_django_response", NoPath),
                             ResolveFormat(output_format, source_format, NoPath)))

ImageToFlaskResponse ==
    Output(FrameworkResolved(Call("to_flask_response", NoPath),
                             ResolveFormat(output_format, source_format, NoPath)))

ImageToFastapiResponse ==
    Output(FrameworkResolved(Call("to_fastapi_response", NoPath),
                             ResolveFormat(output_format, source_format, NoPath)))

\* ---- placeholder.py: generators over one buffer ----
LqipQuality == 20
SampleSize == 100
LqipWidths == {2}

\* lqip(img, width): the encoded body of the data URI; the small buffer is
\* (width, max(1, round(orig_h * (width / orig_w)))).
Lqip(img, width) ==
    EncodeImage(PILResize(img, width, Max(1, Round(img.h * width, img.w)), 1),
                "WEBP", LqipQuality)

\* small = img.copy(); small.thumbnail((sample_size, sample_size));
\* small.convert("RGB"): the buffer whose pixels are bucketed.
Sample(img, sample_size) ==
    LET size == PILThumbnailSize(img.w, img.h, sample_size, sample_size, FALSE)
    IN  [of |-> img.id, w |-> size[1], h |-> size[2], mode |-> "RGB"]

\* dominant_color(img): the most common bucket of the sample.
DominantColor(img) == [most_common |-> 1, sample |-> Sample(img, SampleSize)]

\* color_palette(img, count): the count most common buckets of the sample.
ColorPalette(img, count) == [most_common |-> count, sample |-> Sample(img, SampleSize)]

\* ---- the quantizer of dominant_color / color_palette, on the sample's
\* (r, g, b) pixels ----
QuantizeKeepsLowBits(v) == v

\* (v >> 4) << 4
Quantize(v) == (v \div 16) * 16

\* quantized: one bucket per pixel, in pixel order.
Quantized(pixels) ==
    [i \in 1..Len(pixels) |->
        <<Quantize(pixels[i][1]), Quantize(pixels[i][2]), Quantize(pixels[i][3])>>]

\* Counter(quantized)[bucket]
Count(quantized, bucket) == Cardinality({i \in 1..Len(quantized) : quantized[i] = bucket})

\* counter.most_common(1)[0][0]: the bucket counted most often, the one
\* met first among equals.
MostCommon(quantized) ==
    quantized[CHOOSE i \in 1..Len(quantized) :
                /\ \A j \in 1..Len(quantized) :
                     Count(quantized, quantized[j]) <= Count(quantized, quantized[i])
                /\ \A j \in 1..(i - 1) :
                     Count(quantized, quantized[j]) < Count(quantized, quantized[i])]

HexDigits == <<"0", "1", "2", "3", "4", "5", "6", "7", "8", "9", "a", "b", "c", "d", "e", "f">>

\* f"{v:02x}" for v in 0..255
Hex02(v) == HexDigits[(v \div 16) + 1] \o HexDigits[(v % 16) + 1]

\* f"#{r:02x}{g:02x}{b:02x}"
HexColor(bucket) == "#" \o Hex02(bucket[1]) \o Hex02(bucket[2]) \o Hex02(bucket[3])

\* dominant_color, from the sample's pixels on.
DominantHex(pixels) == HexColor(MostCommon(Quantized(pixels)))

\* svg_placeholder(img, width, height): w = width or orig_w, h = height or orig_h.
SvgPlaceholder(img, width, height) ==
    [w |-> IF width = None THEN img.w ELSE width,
     h |-> IF height = None THEN img.h ELSE height,
     fill |-> DominantColor(img)]

\* A placeholder method's result: _execute is not called; img is the buffer
\* the generator was handed.
Placeholder(call, img, value, mime, encodes) ==
    [Outcome(call, "ok", NotExecuted, NoFormat, value, <<>>, mime, encodes)
        EXCEPT !.img = img]

ImageLqip ==
    \E width \in LqipWidths :
        Output(Placeholder(Call("lqip", NoPath), original,
                           Lqip(original, width), MimeType("WEBP"), 1))

ImageDominantColor ==
    Output(Placeholder(Call("dominant_color", NoPath), original,
                       DominantColor(original), "", 0))

ImageColorPalette ==
    Output(Placeholder(Call("color_palette", NoPath), original,
                       ColorPalette(original, 5), "", 0))

ImageSvgPlaceholder ==
    Output(Placeholder(Call("svg_placeholder", NoPath), original,
                       SvgPlaceholder(original, None, None), "", 0))

\* Image.width / Image.height: self._original.size
Width == original.w
Height == original.h

\* No BatchImage in use.
BatchParked ==
    /\ b_batch = [paths |-> <<>>]
    /\ b_args = [parallel |-> FALSE]
    /\ b_main = [pc |-> "parked"]
    /\ b_tasks = <<>>
    /\ b_heap = [next |-> 0]

\* No function called on its own.
NoCallYet == [fn |-> "none"]

CallParked ==
    /\ c_call = NoCallYet
    /\ c_out = NoCallYet

\* The Image variables while a single function is explored.
ImageParked ==
    /\ original = NoBuf
    /\ source_format = NoFormat
    /\ pipeline = <<>>
    /\ output_format = NoFormat
    /\ output_quality = NoQuality
    /\ auto_format = FALSE
    /\ last = NoOutput

\* ================================================== geometry, one call
\* One transform function applied to one source buffer (object 0); the
\* result is object 1 unless the function returns its argument.
NoCall == [fn |-> "none", width |-> None, height |-> None,
           allow_upscale |-> FALSE, anchor |-> "center"]

GeomCall(fn, width, height, allow_upscale, anchor) ==
    [fn |-> fn, width |-> width, height |-> height,
     allow_upscale |-> allow_upscale, anchor |-> anchor]

Plan(scaled, left, top) ==
    [scaled_w |-> scaled.w, scaled_h |-> scaled.h, left |-> left, top |-> top]

\* The optimize variables while the geometry is explored.
OptParked ==
    /\ o_codec = [q \in {NoQuality} |-> 0]
    /\ o_args = [fmt |-> "PNG", target_kb |-> 1, min_quality |-> 0, max_quality |-> 0]
    /\ o_st = [pc |-> "parked"]

GeomIdle ==
    /\ g_img \in {NewBuf(0, w, h, m) : w \in Dims, h \in Dims, m \in Modes}
    /\ g_call = NoCall
    /\ g_out = g_img
    /\ g_plan = Plan(g_img, 0, 0)

GeomResize ==
    /\ g_call = NoCall
    /\ \E width \in Boxes \cup {None}, height \in Boxes \cup {None}, up \in BOOLEAN :
          LET out == ResizeFit(g_img, width, height, up, 1)
          IN  /\ g_call' = GeomCall("resize", width, height, up, "center")
              /\ g_out' = out
              /\ g_plan' = Plan(out, 0, 0)
    /\ UNCHANGED <<g_img, geom_rest>>

GeomThumbnail ==
    /\ g_call = NoCall
    /\ \E width \in Boxes, height \in Boxes, up \in BOOLEAN, tie \in BOOLEAN :
          LET out == Thumbnail(g_img, width, height, up, 1, tie)
          IN  /\ g_call' = GeomCall("thumbnail", width, height, up, "center")
              /\ g_out' = out
              /\ g_plan' = Plan(out, 0, 0)
    /\ UNCHANGED <<g_img, geom_rest>>

GeomCover ==
    /\ g_call = NoCall
    /\ \E width \in Boxes, height \in Boxes, up \in BOOLEAN :
          LET scaled == CoverScaled(g_img, width, height, up, 1)
              box == IF ~up /\ CoverNeedsUpscale(g_img, width, height)
                     THEN CenterCropBox(g_img, Min(width, g_img.w), Min(height, g_img.h))
                     ELSE CenterCropBox(scaled, width, height)
          IN  /\ g_call' = GeomCall("cover", width, height, up, "center")
              /\ g_out' = Cover(g_img, width, height, up, 1)
              /\ g_plan' = Plan(scaled, box.left, box.top)
    /\ UNCHANGED <<g_img, geom_rest>>

GeomContain ==
    /\ g_call = NoCall
    /\ \E width \in Boxes, height \in Boxes, up \in BOOLEAN :
          LET p == ContainPlan(g_img, width, height, up)
          IN  /\ g_call' = GeomCall("contain", width, height, up, "center")
              /\ g_out' = Contain(g_img, width, height, up, 1)
              /\ g_plan' = [scaled_w |-> p.new_w, scaled_h |-> p.new_h,
                            left |-> p.offset_x, top |-> p.offset_y]
    /\ UNCHANGED <<g_img, geom_rest>>

GeomCrop ==
    /\ g_call = NoCall
    /\ \E width \in Boxes, height \in Boxes, anchor \in Anchors \cup {"middle"} :
          LET b == CropBox(g_img, width, height, anchor)
          IN  /\ g_call' = GeomCall("crop", width, height, FALSE, anchor)
              /\ g_out' = Crop(g_img, width, height, anchor, 1)
              /\ g_plan' = Plan(g_img, b.left, b.top)
    /\ UNCHANGED <<g_img, geom_rest>>

GeomInit == GeomIdle /\ OptParked /\ ImageParked /\ CallParked /\ BatchParked

GeomNext ==
    \/ GeomResize
    \/ GeomThumbnail
    \/ GeomCover
    \/ GeomContain
    \/ GeomCrop

SpecGeom == GeomInit /\ [][GeomNext]_vars

\* ================================================== optimize, one search
\* One call of optimize(img, fmt, target_kb, min_quality=, max_quality=)
\* against an arbitrary codec, one loop iteration per step.
EncodedSizes == {BytesPerKB, BytesPerKB + 1, 2 * BytesPerKB + 1}

OptIdle ==
    [pc |-> "init", lo |-> 0, hi |-> 0, best_data |-> NoData, best_quality |-> 0,
     encodes |-> 0, data |-> NoData, quality |-> NoQuality]

\* The geometry variables while optimize is explored.
GeomParked ==
    /\ g_img = NewBuf(0, 1, 1, "RGB")
    /\ g_call = NoCall
    /\ g_out = g_img
    /\ g_plan = Plan(g_img, 0, 0)

OptInit ==
    /\ GeomParked
    /\ ImageParked
    /\ CallParked
    /\ BatchParked
    /\ o_args \in [fmt : Formats, target_kb : 1..MaxTargetKB,
                    min_quality : 0..MaxQ, max_quality : 0..MaxQ]
    /\ o_codec \in [CodecParams(o_args.fmt) -> EncodedSizes]
    /\ o_st = OptIdle

OptBegin ==
    /\ o_st.pc = "init"
    /\ o_st' = OptStart(o_codec, o_args.fmt, o_args.target_kb,
                        o_args.min_quality, o_args.max_quality)
    /\ UNCHANGED <<o_codec, o_args, opt_rest>>

OptLoop ==
    /\ o_st.pc = "loop"
    /\ o_st.lo <= o_st.hi
    /\ o_st' = OptIter(o_codec, o_args.fmt, o_args.target_kb, o_st)
    /\ UNCHANGED <<o_codec, o_args, opt_rest>>

OptEnd ==
    /\ o_st.pc = "loop"
    /\ o_st.lo > o_st.hi
    /\ o_st' = OptExit(o_codec, o_args.fmt, o_args.min_quality, o_st)
    /\ UNCHANGED <<o_codec, o_args, opt_rest>>

OptNext ==
    \/ OptBegin
    \/ OptLoop
    \/ OptEnd

SpecOpt == OptInit /\ [][OptNext]_vars

\* optimize is one sequential call: the interpreter keeps taking its steps.
SpecOptFair == SpecOpt /\ WF_vars(OptNext)

\* ------------------------------------------------- optimize: the claims
\* C10: for a quality-capable format, optimize returns bytes no longer than
\* target_kb * 1024 whenever the encoding at min_quality is no longer than
\* that, whatever the codec's size function (monotone in quality or not).
C10_FitsWhenMinFits ==
    ( /\ o_st.pc = "done"
      /\ o_args.fmt \in QualityFormats
      /\ Encode(o_codec, o_args.fmt, o_args.min_quality).len
            <= o_args.target_kb * BytesPerKB )
    => o_st.data.len <= o_args.target_kb * BytesPerKB

\* C10 witness: a codec that is not monotone in quality (a lower quality
\* encodes longer than a higher one), max_quality too long, and the search
\* returning min_quality's fitting encoding after probing past it.
C10_Witness ==
    /\ o_st.pc = "done"
    /\ o_args.fmt = "JPEG"
    /\ 1 <= o_args.min_quality /\ o_args.min_quality < o_args.max_quality
    /\ o_codec[o_args.max_quality] > o_args.target_kb * BytesPerKB
    /\ o_codec[o_args.min_quality] <= o_args.target_kb * BytesPerKB
    /\ \E q1 \in 1..MaxQ, q2 \in 1..MaxQ :
          /\ o_args.min_quality <= q1 /\ q1 < q2 /\ q2 <= o_args.max_quality
          /\ o_codec[q1] > o_codec[q2]
    /\ o_st.quality = o_args.min_quality
    /\ o_st.encodes >= 3
    /\ o_st.data.len <= o_args.target_kb * BytesPerKB

\* The quality optimize reports for the same buffer, format and quality
\* range as the call explored, with another target.
QualityFor(target_kb) ==
    Optimize(o_codec, o_args.fmt, target_kb,
             o_args.min_quality, o_args.max_quality).quality

\* C11 as stated: for any min_quality and max_quality, a smaller target never
\* gets a higher quality than the target of this call.
C11_MonotoneAnyRange ==
    o_st.pc = "done" =>
        \A target_b \in 1..MaxTargetKB :
            target_b < o_args.target_kb => QualityFor(target_b) <= o_st.quality

\* C11: with min_quality <= max_quality, the quality returned for a target
\* is at least the quality returned for every smaller target, whatever the
\* codec's size function.
C11_MonotoneInTarget ==
    (o_st.pc = "done" /\ o_args.min_quality <= o_args.max_quality) =>
        \A target_b \in 1..MaxTargetKB :
            target_b < o_args.target_kb => QualityFor(target_b) <= o_st.quality

\* C11 witness: the larger target gets a strictly higher quality than a
\* smaller one, both found by the search.
C11_Witness ==
    /\ o_st.pc = "done"
    /\ o_args.fmt = "WEBP"
    /\ 1 <= o_args.min_quality /\ o_args.min_quality < o_args.max_quality
    /\ o_st.encodes >= 3
    /\ \E target_b \in 1..MaxTargetKB :
          /\ target_b < o_args.target_kb
          /\ o_args.min_quality < QualityFor(target_b)
          /\ QualityFor(target_b) < o_st.quality

\* encode's output size is non-decreasing in the quality it is called with,
\* over the qualities of the call explored.
SizeNonDecreasing ==
    \A q1 \in o_args.min_quality..o_args.max_quality :
        \A q2 \in q1..o_args.max_quality :
            Encode(o_codec, o_args.fmt, q1).len <= Encode(o_codec, o_args.fmt, q2).len

\* The qualities of the range whose encoding fits the target.
Fitting ==
    {q \in o_args.min_quality..o_args.max_quality :
        Encode(o_codec, o_args.fmt, q).len <= TargetBytes(o_args.target_kb)}

Highest(qualities) == CHOOSE q \in qualities : \A r \in qualities : r <= q

\* What C12 says optimize returns: the highest fitting quality with its
\* encoding, else min_quality with its encoding.
ReturnsHighestFitting ==
    IF Fitting # {}
    THEN /\ o_st.quality = Highest(Fitting)
         /\ o_st.data = Encode(o_codec, o_args.fmt, Highest(Fitting))
    ELSE /\ o_st.quality = o_args.min_quality
         /\ o_st.data = Encode(o_codec, o_args.fmt, o_args.min_quality)

\* C12 as stated: for a quality-capable format and a non-decreasing size,
\* whatever min_quality and max_quality are.
C12_HighestAnyRange ==
    (o_st.pc = "done" /\ o_args.fmt \in QualityFormats /\ SizeNonDecreasing)
        => ReturnsHighestFitting

\* C12: for a quality-capable format, min_quality <= max_quality and a size
\* non-decreasing in quality, optimize returns the highest quality of the
\* range whose encoding fits the target, with that encoding; when none fits,
\* the min_quality encoding with quality min_quality.
C12_HighestFitting ==
    ( /\ o_st.pc = "done"
      /\ o_args.fmt \in QualityFormats
      /\ o_args.min_quality <= o_args.max_quality
      /\ SizeNonDecreasing )
        => ReturnsHighestFitting

\* C12 witness: the size grows with quality, max_quality does not fit,
\* min_quality does, and the search returns a quality in between.
C12_Witness ==
    /\ o_st.pc = "done"
    /\ o_args.fmt = "JPEG"
    /\ SizeNonDecreasing
    /\ 1 <= o_args.min_quality
    /\ o_args.min_quality < o_st.quality /\ o_st.quality < o_args.max_quality
    /\ o_st.quality = Highest(Fitting)
    /\ o_args.max_quality \notin Fitting
    /\ o_st.encodes >= 3

RECURSIVE FloorLog2(_)
FloorLog2(n) == IF n <= 1 THEN 0 ELSE 1 + FloorLog2(n \div 2)

\* The encode calls a search over min_quality..max_quality may make.
EncodeBound == FloorLog2(o_args.max_quality - o_args.min_quality + 1) + 3

\* The counts of C27: one encode and quality 0 for a format without a
\* quality knob, one encode and quality max_quality when the max_quality
\* encoding fits, and never more than floor(log2(n)) + 3 encodes for a
\* range of n >= 1 qualities.
EncodesBounded ==
    /\ (o_st.pc = "done" /\ o_args.fmt \notin QualityFormats) =>
          /\ o_st.encodes = 1
          /\ o_st.quality = 0
          /\ o_st.data = Encode(o_codec, o_args.fmt, NoQuality)
    /\ ( /\ o_st.pc = "done"
         /\ o_args.fmt \in QualityFormats
         /\ Encode(o_codec, o_args.fmt, o_args.max_quality).len
               <= o_args.target_kb * BytesPerKB ) =>
          /\ o_st.encodes = 1
          /\ o_st.quality = o_args.max_quality
    /\ (o_args.fmt \in QualityFormats /\ o_args.min_quality <= o_args.max_quality) =>
          o_st.encodes <= EncodeBound

\* An iteration of the loop leaves a strictly smaller interval inside the
\* one it found.
IntervalShrinks ==
    (o_st.pc = "loop" /\ o_st'.pc = "loop") =>
        /\ o_st'.hi - o_st'.lo < o_st.hi - o_st.lo
        /\ o_st.lo <= o_st'.lo /\ o_st'.hi <= o_st.hi
        /\ o_st'.encodes = o_st.encodes + 1

\* C27: optimize always returns; it makes exactly one encode for a format
\* without a quality knob (returning quality 0) and exactly one when the
\* max_quality encoding fits (returning max_quality); otherwise every
\* iteration strictly shrinks [lo, hi], and at most floor(log2(n)) + 3
\* encodes are made, n = max_quality - min_quality + 1 >= 1.
C27_TerminatesBounded ==
    /\ []EncodesBounded
    /\ [][IntervalShrinks]_vars
    /\ <>(o_st.pc = "done")

\* C27 witness: a range of three qualities none of which fits takes the
\* full floor(log2(3)) + 3 = 4 encodes.
C27_Witness ==
    /\ o_st.pc = "done"
    /\ o_args.fmt = "WEBP"
    /\ o_args.max_quality - o_args.min_quality + 1 = 3
    /\ o_st.encodes = 4
    /\ o_st.encodes = EncodeBound

\* C28: for a quality-capable format and any min_quality and max_quality,
\* the quality optimize reports is the quality parameter the codec was
\* handed for the bytes it returns (encode passes a given quality on
\* unchanged, using the default only when none is given).
C28_ReportedIsEncoded ==
    (o_st.pc = "done" /\ o_args.fmt \in QualityFormats) =>
        o_st.data.quality = o_st.quality


\* ------------------------------------------------- geometry: the claims
\* C6: with allow_upscale false, resize (one or both dimensions given) and
\* thumbnail return a buffer of exactly the input's dimensions whenever
\* every requested dimension is >= the corresponding original dimension.
C6_NoUpscaleKeepsSize ==
    ( /\ g_call.fn \in {"resize", "thumbnail"}
      /\ ~g_call.allow_upscale
      /\ g_call.width = None \/ g_call.width >= g_img.w
      /\ g_call.height = None \/ g_call.height >= g_img.h )
    => (g_out.w = g_img.w /\ g_out.h = g_img.h)

\* C6 witness: resize(width) with width > orig_w whose derived height rounds
\* back to orig_h, so the upscale guard does not fire and the image is
\* resampled (a new object) at its own size.
C6_Witness ==
    /\ g_call.fn = "resize"
    /\ ~g_call.allow_upscale
    /\ g_call.width > g_img.w
    /\ g_call.height = None
    /\ g_out.id # g_img.id
    /\ g_out.w = g_img.w /\ g_out.h = g_img.h

\* C7: cover(w, h) returns exactly w x h when upscaling is allowed, and
\* when it is not but w <= orig_w and h <= orig_h; the scaled image it
\* crops from is at least w x h.
C7_CoverExact ==
    ( /\ g_call.fn = "cover"
      /\ \/ g_call.allow_upscale
         \/ (g_call.width <= g_img.w /\ g_call.height <= g_img.h) )
    => /\ g_out.w = g_call.width /\ g_out.h = g_call.height
       /\ g_plan.scaled_w >= g_call.width /\ g_plan.scaled_h >= g_call.height
       /\ g_plan.left >= 0 /\ g_plan.top >= 0

\* C7 witness: an upscaling cover whose scaled image overflows the box on one
\* axis and is centre-cropped to it.
C7_Witness ==
    /\ g_call.fn = "cover"
    /\ g_call.allow_upscale
    /\ g_call.width > g_img.w
    /\ g_plan.scaled_h > g_call.height
    /\ g_plan.top > 0
    /\ g_out.w = g_call.width /\ g_out.h = g_call.height

\* C8: contain(w, h) returns a canvas of exactly w x h for every source and
\* either upscale policy, and the resized image lies inside it: new_w <= w,
\* new_h <= h, and both integer-divided offsets are >= 0.
C8_ContainCanvas ==
    g_call.fn = "contain"
    => /\ g_out.w = g_call.width /\ g_out.h = g_call.height
       /\ g_plan.scaled_w <= g_call.width /\ g_plan.scaled_h <= g_call.height
       /\ g_plan.left >= 0 /\ g_plan.top >= 0
       /\ g_plan.left + g_plan.scaled_w <= g_call.width
       /\ g_plan.top + g_plan.scaled_h <= g_call.height

\* C8 witness: a letterboxed contain: the image is shrunk and padded on one axis.
C8_Witness ==
    /\ g_call.fn = "contain"
    /\ g_plan.scaled_w = g_call.width
    /\ g_plan.scaled_w < g_img.w
    /\ g_plan.scaled_h < g_call.height
    /\ g_plan.top > 0
    /\ g_out.w = g_call.width /\ g_out.h = g_call.height

\* C9: crop(w, h, anchor) returns min(w, orig_w) x min(h, orig_h) and its
\* window lies inside the image for every anchor.
C9_CropClamped ==
    g_call.fn = "crop"
    => /\ g_out.w = Min(g_call.width, g_img.w)
       /\ g_out.h = Min(g_call.height, g_img.h)
       /\ 0 <= g_plan.left /\ 0 <= g_plan.top
       /\ g_plan.left + g_out.w <= g_img.w
       /\ g_plan.top + g_out.h <= g_img.h

\* C9 witness: a crop larger than the image on both axes returns the
\* original dimensions.
C9_Witness ==
    /\ g_call.fn = "crop"
    /\ g_call.width > g_img.w /\ g_call.height > g_img.h
    /\ g_out.w = g_img.w /\ g_out.h = g_img.h
    /\ g_call.anchor = "bottom-right"

\* C18: resize with both width and height given returns a buffer no wider
\* than width and no taller than height, each side at least 1, whatever the
\* source size and whether or not upscaling is allowed; thumbnail(width,
\* height) returns a buffer no larger than its box on either axis.
C18_FitsInBox ==
    ( \/ g_call.fn = "resize" /\ g_call.width # None /\ g_call.height # None
      \/ g_call.fn = "thumbnail" )
    => /\ 1 <= g_out.w /\ g_out.w <= g_call.width
       /\ 1 <= g_out.h /\ g_out.h <= g_call.height

\* C18 witness: an upscaling resize into a box of another aspect; the
\* result touches the box on one axis and stays inside it on the other.
C18_Witness ==
    /\ g_call.fn = "resize"
    /\ g_call.allow_upscale
    /\ g_img.w = 2 /\ g_img.h = 3
    /\ g_call.width = 5 /\ g_call.height = 6
    /\ g_out.id # g_img.id
    /\ g_out.w = 4 /\ g_out.h = 6

\* C19: resize with only one dimension given, not larger than the source's,
\* returns exactly that size on that axis and, on the other, the source's
\* size scaled by the same factor, rounded, at least 1.
C19_OneDimensionExact ==
    /\ ( /\ g_call.fn = "resize"
         /\ g_call.width # None /\ g_call.height = None
         /\ g_call.width <= g_img.w )
       => /\ g_out.w = g_call.width
          /\ g_out.h = Max(1, Round(g_img.h * g_call.width, g_img.w))
    /\ ( /\ g_call.fn = "resize"
         /\ g_call.width = None /\ g_call.height # None
         /\ g_call.height <= g_img.h )
       => /\ g_out.h = g_call.height
          /\ g_out.w = Max(1, Round(g_img.w * g_call.height, g_img.h))

\* C24: when cover(w, h) would need upscaling (w > orig_w or h > orig_h) and
\* allow_upscale is false, the image is not resized, and the result is the
\* centre crop of the source of exactly min(w, orig_w) x min(h, orig_h).
C24_CoverFallback ==
    ( /\ g_call.fn = "cover"
      /\ ~g_call.allow_upscale
      /\ (g_call.width > g_img.w \/ g_call.height > g_img.h) )
    => /\ g_plan.scaled_w = g_img.w /\ g_plan.scaled_h = g_img.h
       /\ g_out.w = Min(g_call.width, g_img.w)
       /\ g_out.h = Min(g_call.height, g_img.h)
       /\ g_plan.left = (g_img.w - g_out.w) \div 2
       /\ g_plan.top = (g_img.h - g_out.h) \div 2
       /\ g_out.mode = g_img.mode

\* C24 witness: the box is wider than the source and lower; the result keeps
\* the source's width, short of the box, and is cropped in height.
C24_Witness ==
    /\ g_call.fn = "cover"
    /\ ~g_call.allow_upscale
    /\ g_img.w = 4 /\ g_img.h = 5
    /\ g_call.width = 6 /\ g_call.height = 2
    /\ g_out.w = 4 /\ g_out.h = 2
    /\ g_plan.top = 1

\* ===================================================== one function call
\* The colour modes of the buffers handed to a function called on its own,
\* and those of them with an alpha channel.
AllModes == {"RGB", "L", "P", "RGBA", "LA", "PA"}
AlphaModes == {"RGBA", "LA", "PA"}

\* The buffers: opaque says every alpha value is 255, which a buffer
\* without an alpha channel always is.
CallBuffers ==
    {b \in [id : {0}, w : 1..2, h : {1}, mode : AllModes, opaque : BOOLEAN] :
        b.mode \in AlphaModes \/ b.opaque}

\* The byte lengths an encoder can give in a function called on its own.
CallSizes == {100, 101, 102}

\* encode(img, fmt, quality=quality) by an encoder giving len bytes.
EncodeSized(img, fmt, quality, len) ==
    [fmt |-> fmt, quality |-> EncodeParam(fmt, quality), len |-> len, w |-> img.w, h |-> img.h]

\* auto_format(img, quality=quality)
CallAutoFormat ==
    /\ c_call = NoCallYet
    /\ \E img \in CallBuffers, quality \in QualityArgs, sizes \in [{"PNG", "WEBP", "JPEG"} -> CallSizes] :
         /\ c_call' = [fn |-> "auto_format", img |-> img, quality |-> quality, sizes |-> sizes]
         /\ c_out' = AutoFormatChoice(img,
                        EncodeSized(img, "PNG", NoQuality, sizes["PNG"]),
                        EncodeSized(img, "WEBP", quality, sizes["WEBP"]),
                        EncodeSized(img, "JPEG", quality, sizes["JPEG"]))
    /\ UNCHANGED call_rest

\* The lists of widths asked for.
WidthLists == UNION {[1..n -> Boxes] : n \in 0..MaxWidths}

\* generate_responsive(img, widths, fmt=, quality=, allow_upscale=)
CallGenerateResponsive ==
    /\ c_call = NoCallYet
    /\ \E orig_w \in Dims, widths \in WidthLists, allow_upscale \in BOOLEAN :
         /\ c_call' = [fn |-> "generate_responsive",
                       img |-> [id |-> 0, w |-> orig_w, h |-> 2, mode |-> "RGB", opaque |-> TRUE],
                       widths |-> widths, allow_upscale |-> allow_upscale]
         /\ c_out' = [items |-> GenerateResponsive(c_call'.img, widths, "WEBP",
                                                   NoQuality, allow_upscale)]
    /\ UNCHANGED call_rest

\* ---- loaders.py ----
\* config.max_input_size
MaxInputSize == 50000000

\* errors.py: the classes an exception is an instance of.
Bases(err) ==
    IF err \in {"ImageLoadError", "ImageFormatError", "ImageSizeError",
                "ImageProcessingError", "ImageOutputError"}
    THEN {err, "NitroImgError", "Exception"}
    ELSE {err, "Exception"}

IsInstance(err, cls) == cls \in Bases(err)

Loaded(data) == [ok |-> TRUE, error |-> "none", len |-> data.len]
Raised(err) == [ok |-> FALSE, error |-> err, len |-> 0]

\* The inputs: len bytes that PIL can decode or not.
LoadSizes == {MaxInputSize - 1, MaxInputSize, MaxInputSize + 1}
LoadData == [len : LoadSizes, decodable : BOOLEAN]

\* _validate_size(data): the exception raised ("none" when it returns).
ValidateSize(data) ==
    IF data.len > MaxInputSize THEN "ImageSizeError" ELSE "none"

\* The try block of load_from_bytes / load_from_path: PILImage.open and
\* img.load raise on undecodable data, which except Exception catches.
Decode(data) ==
    IF ~data.decodable THEN Raised("ImageLoadError") ELSE Loaded(data)

LoadFromBytes(data) ==
    IF ValidateSize(data) # "none" THEN Raised(ValidateSize(data)) ELSE Decode(data)

\* load_from_path: except ImageSizeError: raise, before except Exception.
LoadFromPath(exists, data) ==
    IF ~exists THEN Raised("ImageLoadError")
    ELSE IF data.len > MaxInputSize THEN Raised("ImageSizeError")
    ELSE Decode(data)

\* load_from_file's handlers around r = load_from_bytes(data):
\* except ImageLoadError: raise; except Exception: raise ImageLoadError.
FileHandlers(r) ==
    IF r.ok THEN r
    ELSE IF IsInstance(r.error, "ImageLoadError") THEN r
    ELSE Raised("ImageLoadError")

LoadFromFile(readable, data) ==
    IF ~readable THEN Raised("ImageLoadError") ELSE FileHandlers(LoadFromBytes(data))

\* load_from_base64: b64decode inside try, load_from_bytes outside it.
LoadFromBase64(valid, data) ==
    IF ~valid THEN Raised("ImageLoadError") ELSE LoadFromBytes(data)

LoadCall(fn, usable, data) == [fn |-> fn, usable |-> usable, data |-> data]

CallLoadFromPath ==
    /\ c_call = NoCallYet
    /\ \E exists \in BOOLEAN, data \in LoadData :
         /\ c_call' = LoadCall("load_from_path", exists, data)
         /\ c_out' = LoadFromPath(exists, data)
    /\ UNCHANGED call_rest

CallLoadFromBytes ==
    /\ c_call = NoCallYet
    /\ \E data \in LoadData :
         /\ c_call' = LoadCall("load_from_bytes", TRUE, data)
         /\ c_out' = LoadFromBytes(data)
    /\ UNCHANGED call_rest

CallLoadFromFile ==
    /\ c_call = NoCallYet
    /\ \E readable \in BOOLEAN, data \in LoadData :
         /\ c_call' = LoadCall("load_from_file", readable, data)
         /\ c_out' = LoadFromFile(readable, data)
    /\ UNCHANGED call_rest

CallLoadFromBase64 ==
    /\ c_call = NoCallYet
    /\ \E valid \in BOOLEAN, data \in LoadData :
         /\ c_call' = LoadCall("load_from_base64", valid, data)
         /\ c_out' = LoadFromBase64(valid, data)
    /\ UNCHANGED call_rest

\* svg_placeholder(img, width, height)
CallSvgPlaceholder ==
    /\ c_call = NoCallYet
    /\ \E orig_w \in Dims, orig_h \in Dims, width \in Boxes \cup {None}, height \in Boxes \cup {None} :
         /\ c_call' = [fn |-> "svg_placeholder",
                       img |-> [id |-> 0, w |-> orig_w, h |-> orig_h, mode |-> "RGB", opaque |-> TRUE],
                       width |-> width, height |-> height]
         /\ c_out' = SvgPlaceholder(c_call'.img, width, height)
    /\ UNCHANGED call_rest

\* The shorter lists of widths.
FewWidths == {widths \in WidthLists : Len(widths) <= 2}

\* save_responsive(img, widths, output_dir, name, fmt=fmt)
CallSaveResponsive ==
    /\ c_call = NoCallYet
    /\ \E orig_w \in Dims, widths \in FewWidths, fmt \in Formats, allow_upscale \in BOOLEAN :
         /\ c_call' = [fn |-> "save_responsive",
                       img |-> [id |-> 0, w |-> orig_w, h |-> 2, mode |-> "RGB", opaque |-> TRUE],
                       widths |-> widths, output_dir |-> "out", name |-> "hero",
                       fmt |-> fmt, allow_upscale |-> allow_upscale]
         /\ c_out' = SaveResponsive(c_call'.img, widths, "out", "hero", fmt,
                                    NoQuality, allow_upscale)
    /\ UNCHANGED call_rest

\* The pixels of the samples tried, and the samples.
SamplePixels == {<<255, 0, 0>>, <<241, 15, 7>>, <<16, 32, 47>>, <<17, 47, 32>>, <<0, 128, 255>>}
Samples == UNION {[1..n -> SamplePixels] : n \in 1..MaxPixels}

\* dominant_color(img) on an image whose sample has these pixels
CallDominantColor ==
    /\ c_call = NoCallYet
    /\ \E pixels \in Samples :
         /\ c_call' = [fn |-> "dominant_color", pixels |-> pixels]
         /\ c_out' = [hex |-> DominantHex(pixels)]
    /\ UNCHANGED call_rest

\* The opacities tried, in tenths, and the 8-bit alpha values.
Opacities == {<<t, 10>> : t \in 0..MaxOpacity}
Alphas == 0..255

\* watermark(source, opacity=opacity)(img), with a the alpha of one pixel of
\* the overlay
CallWatermark ==
    /\ c_call = NoCallYet
    /\ \E img \in {b \in CallBuffers : b.w = 1}, opacity \in Opacities, a \in Alphas, tieUp \in BOOLEAN :
         /\ c_call' = [fn |-> "watermark", img |-> img, opacity |-> opacity, a |-> a]
         /\ c_out' = [result |-> Watermark(img, "logo.png", 1),
                      alpha |-> OpacityAlpha(a, opacity, tieUp)]
    /\ UNCHANGED call_rest

\* text_overlay(text)(img)
CallTextOverlay ==
    /\ c_call = NoCallYet
    /\ \E img \in CallBuffers :
         /\ c_call' = [fn |-> "text_overlay", img |-> img]
         /\ c_out' = [result |-> TextOverlay(img, 1)]
    /\ UNCHANGED call_rest

CallInit ==
    /\ CallParked
    /\ GeomParked
    /\ OptParked
    /\ ImageParked
    /\ BatchParked

CallNext ==
    \/ CallAutoFormat
    \/ CallGenerateResponsive
    \/ CallLoadFromPath
    \/ CallLoadFromBytes
    \/ CallLoadFromFile
    \/ CallLoadFromBase64
    \/ CallSvgPlaceholder
    \/ CallSaveResponsive
    \/ CallDominantColor
    \/ CallWatermark
    \/ CallTextOverlay

SpecCall == CallInit /\ [][CallNext]_vars

\* C13: auto_format returns PNG exactly when the buffer has an alpha channel
\* that is not fully opaque; otherwise the one of the WEBP and JPEG encodings
\* with fewer bytes, WEBP when they are equally long.
C13_PngIffUsedAlpha ==
    c_call.fn = "auto_format" =>
        /\ c_out.fmt = "PNG" <=> (c_call.img.mode \in AlphaModes /\ ~c_call.img.opaque)
        /\ c_out.fmt # "PNG" =>
             /\ c_out.fmt = (IF c_call.sizes["WEBP"] <= c_call.sizes["JPEG"]
                             THEN "WEBP" ELSE "JPEG")
             /\ c_out.data.len = c_call.sizes[c_out.fmt]
             /\ c_out.data.fmt = c_out.fmt

\* C14: without upscaling, the keys of generate_responsive's map are exactly
\* the requested widths capped at the source width, one entry per key, and
\* the entries are in ascending key order.
C14_ResponsiveKeys ==
    (c_call.fn = "generate_responsive" /\ ~c_call.allow_upscale) =>
        /\ {c_out.items[i].key : i \in 1..Len(c_out.items)}
              = {Min(c_call.widths[i], c_call.img.w) : i \in 1..Len(c_call.widths)}
        /\ \A i \in 1..Len(c_out.items) : \A j \in 1..Len(c_out.items) :
              i < j => c_out.items[i].key < c_out.items[j].key
        /\ \A i \in 1..Len(c_out.items) :
              /\ c_out.items[i].key <= c_call.img.w
              /\ c_out.items[i].value.w = c_out.items[i].key

\* C14 witness: two widths above the source width and one below it, given
\* out of order, make two entries.
C14_Witness ==
    /\ c_call.fn = "generate_responsive"
    /\ ~c_call.allow_upscale
    /\ c_call.img.w = 3
    /\ c_call.widths = <<4, 2, 6>>
    /\ Len(c_out.items) = 2
    /\ c_out.items[1].key = 2
    /\ c_out.items[2].key = 3

LoadFns == {"load_from_path", "load_from_bytes", "load_from_file", "load_from_base64"}

\* C20: each loading entry point (path, bytes, file object, base64 string),
\* given an input it can read whose size is larger than
\* config.max_input_size, raises ImageSizeError, not ImageLoadError.
C20_OversizeIsSizeError ==
    (c_call.fn \in LoadFns /\ c_call.usable /\ c_call.data.len > MaxInputSize)
        => (~c_out.ok /\ c_out.error = "ImageSizeError")

\* C21: the rectangle svg_placeholder emits has the given width and height
\* when both are given, and otherwise (none or only one given) has the
\* source's aspect ratio: w * orig_h = h * orig_w.
C21_SvgAspect ==
    c_call.fn = "svg_placeholder" =>
        IF c_call.width # None /\ c_call.height # None
        THEN c_out.w = c_call.width /\ c_out.h = c_call.height
        ELSE c_out.w * c_call.img.h = c_out.h * c_call.img.w

\* The widths generate_responsive resolves the call's request to.
ResolvedSizes ==
    GenerateResponsive(c_call.img, c_call.widths, c_call.fmt, NoQuality, c_call.allow_upscale)

\* What both readings of C22 share: each generated size is written to, and
\* returned as, output_dir/{name}_{width}{ext} with width the resolved key
\* and ext = extension_for_format(fmt); the six Formats have six distinct
\* extensions, none of them ".bin".
NamedByWidthAndFormat ==
    /\ Len(c_out.results) = Len(ResolvedSizes)
    /\ \A i \in 1..Len(ResolvedSizes) :
         /\ c_out.results[i].key = ResolvedSizes[i].key
         /\ c_out.results[i].value =
              [dir |-> c_call.output_dir,
               stem |-> c_call.name \o "_" \o ToString(ResolvedSizes[i].key),
               ext |-> ExtensionForFormat(c_call.fmt)]
         /\ [path |-> c_out.results[i].value, data |-> ResolvedSizes[i].value] \in c_out.written
    /\ Cardinality(c_out.written) = Len(ResolvedSizes)
    /\ \A f \in Formats : ExtensionForFormat(f) # ".bin"
    /\ \A f, g \in Formats : ExtensionForFormat(f) = ExtensionForFormat(g) => f = g

\* C22 as stated: the naming above, and format_from_extension applied to
\* the string extension_for_format(f) gives f for every Format f.
C22_ExtensionRoundTrip ==
    c_call.fn = "save_responsive" =>
        /\ NamedByWidthAndFormat
        /\ \A f \in Formats : FormatFromExtension(AsPath(ExtensionForFormat(f))) = f

\* C22: the naming above, and format_from_extension applied to a path that
\* save_responsive wrote for Format f gives f, for every Format f.
C22_WrittenPathRoundTrip ==
    c_call.fn = "save_responsive" =>
        /\ NamedByWidthAndFormat
        /\ \A i \in 1..Len(c_out.results) :
             FormatFromExtension(c_out.results[i].value) = c_call.fmt
        /\ \A f \in Formats :
             FormatFromExtension(OutName(c_call.output_dir, c_call.name, 1,
                                         ExtensionForFormat(f))) = f

\* C22 witness: TIFF, a width above the source's capped to it and merged
\* with the source's own width.
C22_Witness ==
    /\ c_call.fn = "save_responsive"
    /\ c_call.fmt = "TIFF"
    /\ c_call.img.w = 3
    /\ c_call.widths = <<5, 2>>
    /\ ~c_call.allow_upscale
    /\ Len(c_out.results) = 2
    /\ c_out.results[2].value = [dir |-> "out", stem |-> "hero_3", ext |-> ".tiff"]

\* The 16 levels of a channel, and the pixels of the call that fall in the
\* bucket whose three channels start at the levels b.
Levels == {16 * k : k \in 0..15}
PixelsIn(b) ==
    {i \in 1..Len(c_call.pixels) :
        \A k \in 1..3 : b[k] <= c_call.pixels[i][k] /\ c_call.pixels[i][k] <= b[k] + 15}

\* C23: dominant_color returns "#rrggbb" for a bucket (each channel with its
\* low 4 bits cleared, so a multiple of 16 in 0..240) that no other bucket
\* holds more of the pixels than; a uniform (255, 0, 0) image gives
\* "#f00000".
C23_DominantBucket ==
    c_call.fn = "dominant_color" =>
        /\ \E b \in Levels \X Levels \X Levels :
             /\ c_out.hex = HexColor(b)
             /\ PixelsIn(b) # {}
             /\ \A o \in Levels \X Levels \X Levels :
                  Cardinality(PixelsIn(o)) <= Cardinality(PixelsIn(b))
        /\ (\A i \in 1..Len(c_call.pixels) : c_call.pixels[i] = <<255, 0, 0>>) =>
              c_out.hex = "#f00000"

\* C23 witness: two pixels of one bucket outvote a pixel met first.
C23_Witness ==
    /\ c_call.fn = "dominant_color"
    /\ c_call.pixels = << <<0, 128, 255>>, <<255, 0, 0>>, <<241, 15, 7>> >>
    /\ c_out.hex = "#f00000"

\* C25: watermark and text_overlay return a buffer in the colour mode of
\* their input: a base without an alpha channel (RGB, grayscale) gives a
\* result without one, and an RGBA base stays RGBA.
C25_KeepsMode ==
    (c_call.fn \in {"watermark", "text_overlay"} /\ c_out.result.ok) =>
        /\ c_out.result.img.mode = c_call.img.mode
        /\ c_call.img.mode \notin AlphaModes => c_out.result.img.mode \notin AlphaModes

\* C26: for an opacity below 1 the alpha composited with is a * opacity
\* rounded to an integer, and it is never more than the overlay's alpha a;
\* for an opacity of 1 or more the overlay's alpha is left as it is.
C26_OpacityNeverRaisesAlpha ==
    c_call.fn = "watermark" =>
        IF c_call.opacity[1] < c_call.opacity[2]
        THEN /\ c_out.alpha \in 0..c_call.a
             /\ 2 * c_out.alpha * c_call.opacity[2] - 2 * c_call.a * c_call.opacity[1]
                   \in (0 - c_call.opacity[2])..c_call.opacity[2]
        ELSE c_out.alpha = c_call.a

\* C26 witness: opacity 0.3 takes alpha 255 down to 76.
C26_Witness ==
    /\ c_call.fn = "watermark"
    /\ c_call.opacity = <<3, 10>>
    /\ c_call.a = 255
    /\ c_out.alpha = 76

\* ============================================================ BatchImage
\* The files a glob pattern can match, in sorted order, and the one of them
\* that cannot be decoded.
AllPaths == <<"a.jpg", "b.png", "c.jpg">>
Corrupt == {"c.jpg"}

\* Path(src_path).stem
Stem(path) ==
    CASE path = "a.jpg" -> "a"
      [] path = "b.png" -> "b"
      [] path = "c.jpg" -> "c"

\* The buffer Image(src_path) loads, as object `nid`.
SourceImage(path, nid) ==
    CASE path = "a.jpg" -> [id |-> nid, w |-> 4, h |-> 3, mode |-> "RGB", opaque |-> TRUE]
      [] path = "b.png" -> [id |-> nid, w |-> 2, h |-> 5, mode |-> "RGBA", opaque |-> FALSE]
      [] OTHER -> NoBuf

\* sorted(glob.glob(pattern)) for a pattern matching the files numbered by
\* `matched` in AllPaths.
SortedGlob(matched) ==
    LET order == CHOOSE f \in [1..Cardinality(matched) -> matched] :
                    \A i \in 1..Cardinality(matched) : \A j \in 1..Cardinality(matched) :
                        i < j => f[i] < f[j]
    IN  [i \in 1..Cardinality(matched) |-> AllPaths[order[i]]]

\* A recorded (method, args, kwargs) and the Operation that calling the
\* method on an Image queues.
Recorded(method) ==
    IF method = "resize" THEN [method |-> "resize", args |-> <<2, None>>]
    ELSE [method |-> "crop", args |-> <<2, 3>>]

Replayed(rec) ==
    IF rec.method = "resize"
    THEN Operation("resize", rec.args[1], rec.args[2], ConfigAllowUpscale, "center", "")
    ELSE Operation("crop", rec.args[1], rec.args[2], FALSE, "center", "")

\* pattern.replace("{name}", stem)
OutPath(pattern, src_path) ==
    [stem |-> IF pattern.named THEN Stem(src_path) ELSE "", dir |-> pattern.dir,
     ext |-> pattern.ext]

\* max_workers or min(len(self._paths), 8)
Workers(max_workers, paths) ==
    IF max_workers # None THEN max_workers ELSE Min(Len(paths), 8)

NoTask == [pc |-> "idle", applied |-> 0, result |-> NoPath, error |-> "none",
           img |-> [id |-> -1, original |-> NoBuf, pipeline |-> -1,
                    output_format |-> NoFormat, output_quality |-> NoQuality]]

NewImageSharedPipeline(src_path, next) ==
    [id |-> next, original |-> SourceImage(src_path, next + 1), pipeline |-> 0,
     output_format |-> NoFormat, output_quality |-> NoQuality]

\* Image(src_path): a new Image with a new buffer and a new Pipeline, the
\* objects numbered from `next`.
NewImage(src_path, next) ==
    [id |-> next, original |-> SourceImage(src_path, next + 1), pipeline |-> next + 2,
     output_format |-> NoFormat, output_quality |-> NoQuality]

\* The Pipelines after Pipeline() made object pid (an object already there
\* keeps its operations).
WithPipeline(pipelines, pid) ==
    [q \in DOMAIN pipelines \cup {pid} |->
        IF q \in DOMAIN pipelines THEN pipelines[q] ELSE <<>>]

Finished(i) == b_tasks[i].pc \in {"done", "failed"}
Running == {i \in DOMAIN b_tasks : b_tasks[i].pc = "apply"}
Queued == {i \in DOMAIN b_tasks : b_tasks[i].pc = "queued"}

BatchReturnInsertionOrder(results) ==
    [k \in 1..Len(results) |-> results[k].value]

\* [results[i] for i in sorted(results)]
BatchReturn(results) ==
    LET keys == {results[k].key : k \in 1..Len(results)}
        order == CHOOSE f \in [1..Len(results) -> keys] :
                    \A i \in 1..Len(results) : \A j \in 1..Len(results) :
                        i < j => f[i] < f[j]
    IN  [k \in 1..Len(results) |->
            (CHOOSE item \in {results[n] : n \in 1..Len(results)} : item.key = order[k]).value]

\* BatchImage(pattern), before any operation is recorded.
BatchInit ==
    /\ \E matched \in SUBSET (1..Len(AllPaths)) :
         /\ matched # {}
         /\ Cardinality(matched) <= MaxImages
         /\ b_batch = [paths |-> SortedGlob(matched), operations |-> <<>>,
                       output_format |-> NoFormat, output_quality |-> NoQuality]
    /\ b_args \in [pattern : {[dir |-> "out", named |-> TRUE, ext |-> ".webp"]},
                   parallel : BOOLEAN, max_workers : {None, 1}]
    /\ b_main = [pc |-> "init", submitted |-> 0, results |-> <<>>, error |-> "none",
                 ret |-> <<>>]
    /\ b_tasks = [i \in 1..Len(b_batch.paths) |-> NoTask]
    /\ b_heap = [next |-> 0, pipelines |-> <<>>, written |-> {}]
    /\ GeomParked
    /\ OptParked
    /\ ImageParked
    /\ CallParked

\* BatchImage.resize / crop: _record
BatchRecord ==
    /\ b_main.pc = "init"
    /\ Len(b_batch.operations) < MaxRecorded
    /\ \E method \in {"resize", "crop"} :
         b_batch' = [b_batch EXCEPT !.operations = Append(@, Recorded(method))]
    /\ UNCHANGED <<b_args, b_main, b_tasks, b_heap, batch_rest>>

\* BatchImage.png
BatchPng ==
    /\ b_main.pc = "init"
    /\ b_batch.output_format = NoFormat
    /\ b_batch' = [b_batch EXCEPT !.output_format = "PNG"]
    /\ UNCHANGED <<b_args, b_main, b_tasks, b_heap, batch_rest>>

\* BatchImage.save is called.
BatchSave ==
    /\ b_main.pc = "init"
    /\ b_main' = [b_main EXCEPT !.pc = IF b_args.parallel THEN "submit" ELSE "sequential"]
    /\ UNCHANGED <<b_batch, b_args, b_tasks, b_heap, batch_rest>>

\* executor.submit(self._process_one, p, pattern) for the next path; after
\* the last one the thread enters as_completed.
BatchSubmit ==
    /\ b_main.pc = "submit"
    /\ b_tasks' = [b_tasks EXCEPT ![b_main.submitted + 1].pc = "queued"]
    /\ b_main' = [b_main EXCEPT !.submitted = @ + 1,
                                !.pc = IF b_main.submitted + 1 = Len(b_batch.paths)
                                       THEN "collect" ELSE "submit"]
    /\ UNCHANGED <<b_batch, b_args, b_heap, batch_rest>>

\* parallel=False: the list comprehension calls _process_one for the next path.
BatchCallNext ==
    /\ b_main.pc = "sequential"
    /\ b_main.submitted < Len(b_batch.paths)
    /\ Len(b_main.ret) = b_main.submitted
    /\ b_tasks' = [b_tasks EXCEPT ![b_main.submitted + 1].pc = "queued"]
    /\ b_main' = [b_main EXCEPT !.submitted = @ + 1]
    /\ UNCHANGED <<b_batch, b_args, b_heap, batch_rest>>

\* _process_one up to img = Image(src_path), run by a free worker on the
\* first queued call (or by the caller when parallel=False).
TaskStart(i) ==
    /\ b_tasks[i].pc = "queued"
    /\ \A j \in Queued : i <= j
    /\ b_args.parallel => Cardinality(Running) < Workers(b_args.max_workers, b_batch.paths)
    /\ IF b_batch.paths[i] \in Corrupt
       THEN /\ b_tasks' = [b_tasks EXCEPT ![i].pc = "failed", ![i].error = "ImageLoadError"]
            /\ UNCHANGED b_heap
       ELSE /\ b_tasks' = [b_tasks EXCEPT ![i].pc = "apply",
                              ![i].img = NewImage(b_batch.paths[i], b_heap.next)]
            /\ b_heap' = [b_heap EXCEPT !.next = @ + 3,
                              !.pipelines = WithPipeline(@, b_tasks'[i].img.pipeline)]
    /\ UNCHANGED <<b_batch, b_args, b_main, batch_rest>>

\* _apply_pipeline: one turn of the loop, calling the recorded method on
\* the task's Image, which queues an Operation on the Image's Pipeline.
TaskApply(i) ==
    /\ b_tasks[i].pc = "apply"
    /\ b_tasks[i].applied < Len(b_batch.operations)
    /\ b_heap' = [b_heap EXCEPT !.pipelines[b_tasks[i].img.pipeline] =
                     PipelineAdd(@, Replayed(b_batch.operations[b_tasks[i].applied + 1]))]
    /\ b_tasks' = [b_tasks EXCEPT ![i].applied = @ + 1]
    /\ UNCHANGED <<b_batch, b_args, b_main, batch_rest>>

\* What img.save(out_path) wrote: the path and the buffer encoded.
Written(path, ex) == [path |-> path, ok |-> ex.ok, w |-> ex.img.w, h |-> ex.img.h]

\* _apply_pipeline after the loop, then img.save(out_path).
TaskSave(i) ==
    /\ b_tasks[i].pc = "apply"
    /\ b_tasks[i].applied = Len(b_batch.operations)
    /\ b_tasks' = [b_tasks EXCEPT
                      ![i].pc = "done",
                      ![i].img.output_format = b_batch.output_format,
                      ![i].img.output_quality = b_batch.output_quality,
                      ![i].result = OutPath(b_args.pattern, b_batch.paths[i])]
    /\ b_heap' = [b_heap EXCEPT !.written = @ \cup
                     {Written(OutPath(b_args.pattern, b_batch.paths[i]),
                              ImageExecute(b_tasks[i].img.original,
                                           b_heap.pipelines[b_tasks[i].img.pipeline]))}]
    /\ UNCHANGED <<b_batch, b_args, b_main, batch_rest>>

\* as_completed hands over a finished future: its result is stored under
\* its index, or its exception leaves the with block.
BatchCollect ==
    /\ b_main.pc = "collect"
    /\ \E i \in DOMAIN b_tasks :
         /\ Finished(i)
         /\ \A k \in 1..Len(b_main.results) : b_main.results[k].key # i
         /\ IF b_tasks[i].pc = "failed"
            THEN b_main' = [b_main EXCEPT !.pc = "shutdown", !.error = b_tasks[i].error]
            ELSE b_main' = [b_main EXCEPT
                               !.results = DictSet(@, i, b_tasks[i].result),
                               !.pc = IF Len(b_main.results) + 1 = Len(b_batch.paths)
                                      THEN "shutdown" ELSE "collect"]
    /\ UNCHANGED <<b_batch, b_args, b_tasks, b_heap, batch_rest>>

\* The with block left without waiting for the calls still queued or
\* running, as executor.shutdown(wait=False) would leave it.
BatchExitNoWait ==
    /\ b_main.pc = "shutdown"
    /\ b_main' = IF b_main.error # "none"
                 THEN [b_main EXCEPT !.pc = "raised"]
                 ELSE [b_main EXCEPT !.pc = "returned", !.ret = BatchReturn(b_main.results)]
    /\ UNCHANGED <<b_batch, b_args, b_tasks, b_heap, batch_rest>>

\* The with block's exit, executor.shutdown(wait=True), returns once every
\* submitted call has finished; then save returns or the exception goes on.
BatchExit ==
    /\ b_main.pc = "shutdown"
    /\ \A i \in DOMAIN b_tasks : Finished(i)
    /\ b_main' = IF b_main.error # "none"
                 THEN [b_main EXCEPT !.pc = "raised"]
                 ELSE [b_main EXCEPT !.pc = "returned", !.ret = BatchReturn(b_main.results)]
    /\ UNCHANGED <<b_batch, b_args, b_tasks, b_heap, batch_rest>>

\* parallel=False: the call returned (its path joins the list) or raised.
BatchCallReturn ==
    /\ b_main.pc = "sequential"
    /\ b_main.submitted > 0
    /\ Finished(b_main.submitted)
    /\ Len(b_main.ret) < b_main.submitted
    /\ b_main' =
         IF b_tasks[b_main.submitted].pc = "failed"
         THEN [b_main EXCEPT !.pc = "raised", !.error = b_tasks[b_main.submitted].error]
         ELSE [b_main EXCEPT !.ret = Append(@, b_tasks[b_main.submitted].result),
                             !.pc = IF b_main.submitted = Len(b_batch.paths)
                                    THEN "returned" ELSE "sequential"]
    /\ UNCHANGED <<b_batch, b_args, b_tasks, b_heap, batch_rest>>

BatchNext ==
    \/ BatchRecord
    \/ BatchPng
    \/ BatchSave
    \/ BatchSubmit
    \/ BatchCallNext
    \/ BatchCollect
    \/ BatchExit
    \/ BatchCallReturn
    \/ \E i \in DOMAIN b_tasks : TaskStart(i)
    \/ \E i \in DOMAIN b_tasks : TaskApply(i)
    \/ \E i \in DOMAIN b_tasks : TaskSave(i)

SpecBatch == BatchInit /\ [][BatchNext]_vars

\* The list save(parallel=False) returns when no call raises: the output
\* path of each input path, in the order of self._paths.
PathPerInput ==
    [i \in 1..Len(b_batch.paths) |-> OutPath(b_args.pattern, b_batch.paths[i])]

\* C15: whenever save returns, with parallel=True in whatever order the
\* tasks completed and were collected, the list holds one path per input
\* image in the order of the sorted input paths, the same list that
\* save(parallel=False) returns.
C15_InputOrder ==
    b_main.pc = "returned" =>
        /\ Len(b_main.ret) = Len(b_batch.paths)
        /\ b_main.ret = PathPerInput

\* C15 witness: a parallel save of two images whose second task was
\* collected first.
C15_Witness ==
    /\ b_main.pc = "returned"
    /\ b_args.parallel
    /\ Len(b_batch.paths) = 2
    /\ b_main.results[1].key = 2
    /\ b_main.ret[1].stem = "a" /\ b_main.ret[2].stem = "b"

\* The tasks that have created their Image.
Started == {i \in DOMAIN b_tasks : b_tasks[i].pc \in {"apply", "done"}}

\* The objects task i works on: its Image, its original buffer, its Pipeline.
ObjectsOf(i) ==
    {b_tasks[i].img.id, b_tasks[i].img.original.id, b_tasks[i].img.pipeline}

\* The recorded operations 1..n as Operations, in recorded order.
ReplayedUpTo(n) == [k \in 1..n |-> Replayed(b_batch.operations[k])]

\* C16: every task has its own Image, original buffer and Pipeline, shared
\* with no other task; the Pipeline holds the recorded operations replayed
\* so far, in recorded order, and the file a finished task wrote is its own
\* source image put through all of them; and once save has been called the
\* recorded operation list does not change.
C16_OwnImagePerTask ==
    /\ [](\A i \in Started :
            /\ Cardinality(ObjectsOf(i)) = 3
            /\ \A j \in Started \ {i} : ObjectsOf(i) \cap ObjectsOf(j) = {}
            /\ b_tasks[i].img.original = SourceImage(b_batch.paths[i], b_tasks[i].img.original.id)
            /\ b_heap.pipelines[b_tasks[i].img.pipeline] = ReplayedUpTo(b_tasks[i].applied)
            /\ b_tasks[i].pc = "done" =>
                  /\ b_tasks[i].applied = Len(b_batch.operations)
                  /\ Written(b_tasks[i].result,
                             PipelineExecute(ReplayedUpTo(Len(b_batch.operations)),
                                             Copy(SourceImage(b_batch.paths[i], 0))))
                        \in b_heap.written)
    /\ [][b_main.pc # "init" => b_batch' = b_batch]_vars

\* C16 witness: two tasks of a parallel save replaying at the same time,
\* one ahead of the other.
C16_Witness ==
    /\ b_args.parallel
    /\ Len(b_batch.operations) = 2
    /\ b_batch.operations[1].method = "crop"
    /\ Started = {1, 2}
    /\ b_tasks[1].pc = "apply" /\ b_tasks[2].pc = "apply"
    /\ b_tasks[1].applied = 1 /\ b_tasks[2].applied = 2
    /\ b_tasks[1].img.id = 0 /\ b_tasks[2].img.id = 3

\* ============================================ the Image, call after call
\* An Image is loaded, then any chainable, format or output method is
\* called on it, in any order.
Init ==
    /\ original \in Originals
    /\ source_format \in SourceFormats
    /\ pipeline = <<>>
    /\ output_format = NoFormat
    /\ output_quality = NoQuality
    /\ auto_format = FALSE
    /\ last = NoOutput
    /\ GeomParked
    /\ OptParked
    /\ CallParked
    /\ BatchParked

Next ==
    \/ (ImageResize /\ UNCHANGED image_rest)
    \/ (ImageThumbnail /\ UNCHANGED image_rest)
    \/ (ImageCover /\ UNCHANGED image_rest)
    \/ (ImageContain /\ UNCHANGED image_rest)
    \/ (ImageCrop /\ UNCHANGED image_rest)
    \/ (ImageWatermark /\ UNCHANGED image_rest)
    \/ (ImageJpeg /\ UNCHANGED image_rest)
    \/ (ImagePng /\ UNCHANGED image_rest)
    \/ (ImageWebp /\ UNCHANGED image_rest)
    \/ (ImageAutoFormat /\ UNCHANGED image_rest)
    \/ (ImageSave /\ UNCHANGED image_rest)
    \/ (ImageToBytes /\ UNCHANGED image_rest)
    \/ (ImageToBase64 /\ UNCHANGED image_rest)
    \/ (ImageToDataUri /\ UNCHANGED image_rest)
    \/ (ImageToResponse /\ UNCHANGED image_rest)
    \/ (ImageResponsive /\ UNCHANGED image_rest)
    \/ (ImageOptimize /\ UNCHANGED image_rest)
    \/ (ImageLqip /\ UNCHANGED image_rest)
    \/ (ImageDominantColor /\ UNCHANGED image_rest)
    \/ (ImageColorPalette /\ UNCHANGED image_rest)
    \/ (ImageSvgPlaceholder /\ UNCHANGED image_rest)
    \/ (ImageToDjangoResponse /\ UNCHANGED image_rest)
    \/ (ImageToFlaskResponse /\ UNCHANGED image_rest)
    \/ (ImageToFastapiResponse /\ UNCHANGED image_rest)

Spec == Init /\ [][Next]_vars

\* ------------------------------------------------------------------ claims
\* The last output call went through Pipeline.execute.
Executed == last # NoOutput /\ last.start # NoBuf

\* The last output call chose its format with _resolve_format.
Resolved ==
    /\ last # NoOutput
    /\ \/ last.call.method = "optimize"
       \/ /\ last.call.method \in {"save", "to_bytes", "to_base64", "to_data_uri", "to_response"}
          /\ ~(auto_format /\ output_format = NoFormat)

\* C1: a chainable method (each is a Pipeline.add) only appends exactly one
\* Operation to the end of the pipeline: the operations already queued are
\* kept as they are, no transform has run (the original buffer, and so the
\* reported width and height, are the same, and no output exists).
C1_ChainOnlyAppends ==
    [][pipeline' # pipeline =>
          /\ Len(pipeline') = Len(pipeline) + 1
          /\ SubSeq(pipeline', 1, Len(pipeline)) = pipeline
          /\ original' = original
          /\ Width' = Width /\ Height' = Height
          /\ last' = NoOutput]_vars

C1_Witness ==
    /\ Len(pipeline) = 2
    /\ pipeline[1].name = "resize"
    /\ pipeline[2].name = "crop"
    /\ Width = 4 /\ Height = 3
    /\ last = NoOutput

\* C2: an execution that ran to its end invoked each queued transform
\* exactly once, in the order added; the first got the buffer execute was
\* given, each next one the buffer the one before returned, and the result is
\* what the last returned (the given buffer itself for an empty pipeline).
C2_ExecuteInOrder ==
    (Executed /\ last.failed = 0) =>
        /\ Len(last.trace) = Len(pipeline)
        /\ \A i \in 1..Len(last.trace) :
             /\ last.trace[i].op = pipeline[i]
             /\ last.trace[i].in = (IF i = 1 THEN last.start ELSE last.trace[i - 1].out)
             /\ last.trace[i].out = OpFn(pipeline[i], last.trace[i].in, i + 1).img
        /\ last.status = "ok" =>
             last.img = (IF pipeline = <<>> THEN last.start
                         ELSE last.trace[Len(pipeline)].out)

C2_Witness ==
    /\ Executed
    /\ last.status = "ok"
    /\ Len(last.trace) = 2
    /\ last.trace[1].op.name = "crop"
    /\ last.trace[2].op.name = "contain"
    /\ last.img = last.trace[2].out
    /\ last.img.id = 3

\* C3: when the transform of operation k raises, the operations before k
\* have run and none after k has, ImageProcessingError is raised naming
\* operation k with the cause, no buffer is returned and nothing is encoded;
\* and an invocation that raised always ends the call with that error.
C3_FailureStops ==
    /\ (last # NoOutput /\ last.status = "ImageProcessingError") =>
          /\ last.failed \in 1..Len(pipeline)
          /\ Len(last.trace) = last.failed
          /\ \A i \in 1..(last.failed - 1) : last.trace[i].ok
          /\ ~last.trace[last.failed].ok
          /\ last.name = pipeline[last.failed].name
          /\ last.cause # "none"
          /\ last.cause = OpFn(pipeline[last.failed], last.trace[last.failed].in,
                               last.failed + 1).cause
          /\ last.img = NoBuf
          /\ last.value = NoBytes /\ last.sizes = <<>>
          /\ last.encodes = 0
    /\ (last # NoOutput /\ \E i \in 1..Len(last.trace) : ~last.trace[i].ok) =>
          last.status = "ImageProcessingError"

C3_Witness ==
    /\ last # NoOutput
    /\ last.status = "ImageProcessingError"
    /\ Len(pipeline) = 2
    /\ last.failed = 1
    /\ last.name = "watermark"
    /\ last.cause = "FileNotFoundError"
    /\ pipeline[2].name = "resize"

\* C4: an output call changes neither the original buffer nor the pipeline
\* (nor the format selection); the execution it makes starts from a buffer
\* that is another object than the original with the original's content; and
\* the same output call made again right away gives the same result.
C4_OutputsLeaveImage ==
    [][last' # NoOutput =>
          /\ original' = original
          /\ pipeline' = pipeline
          /\ image_vars' = image_vars
          /\ (last'.start # NoBuf =>
                /\ last'.start.id # original.id
                /\ [last'.start EXCEPT !.id = original.id] = original)
          /\ ((last # NoOutput /\ last'.call = last.call) => last' = last)]_vars

C4_Witness ==
    /\ Executed
    /\ last.call.method = "optimize"
    /\ last.status = "ok"
    /\ Len(pipeline) = 2
    /\ last.start = Copy(original)
    /\ last.img # last.start

\* C5: where the format is resolved, the result is the selected output
\* format when there is one, else the format of the save path's extension
\* when it has a known one, else the source format; with none of the three
\* ImageFormatError is raised, and then nothing has been encoded.
C5_FormatResolution ==
    Resolved =>
        /\ last.status = "ok" =>
             /\ output_format # NoFormat => last.fmt = output_format
             /\ (output_format = NoFormat /\ last.call.path # NoPath
                   /\ ExtToFormat(Lower(last.call.path.ext)) # NoFormat) =>
                    last.fmt = ExtToFormat(Lower(last.call.path.ext))
             /\ (output_format = NoFormat
                   /\ (last.call.path = NoPath
                        \/ ExtToFormat(Lower(last.call.path.ext)) = NoFormat)) =>
                    (last.fmt = source_format /\ source_format # NoFormat)
             /\ last.value.fmt = last.fmt
        /\ (/\ output_format = NoFormat
            /\ source_format = NoFormat
            /\ (last.call.path = NoPath
                 \/ ExtToFormat(Lower(last.call.path.ext)) = NoFormat)
            /\ last.status # "ImageProcessingError") =>
               last.status = "ImageFormatError"
        /\ last.status = "ImageFormatError" =>
             /\ output_format = NoFormat /\ source_format = NoFormat
             /\ last.encodes = 0
             /\ last.value = NoBytes

C5_Witness ==
    /\ Resolved
    /\ last.call.method = "save"
    /\ last.call.path.ext = ".JPG"
    /\ output_format = NoFormat
    /\ source_format = NoFormat
    /\ last.status = "ok"
    /\ last.fmt = "JPEG"

\* The methods that fan one buffer out to several derived outputs.
FanOutMethods ==
    {"responsive", "optimize", "lqip", "dominant_color", "color_palette", "svg_placeholder"}

Unresolvable(path) ==
    /\ output_format = NoFormat
    /\ source_format = NoFormat
    /\ (path = NoPath \/ FormatFromExtension(path) = NoFormat)

ExecuteFirstMethods == {"to_bytes", "save", "to_base64", "to_data_uri", "to_response"}
ResolveFirstMethods ==
    {"optimize", "to_django_response", "to_flask_response", "to_fastapi_response"}

\* The pipeline holds an operation whose transform raises.
HasFailingOperation ==
    \E i \in 1..Len(pipeline) : ~OpFn(pipeline[i], original, 0).ok

\* C29: on an Image with a failing operation queued and no resolvable
\* output format, to_bytes, save, to_base64, to_data_uri and to_response
\* run the pipeline and raise ImageProcessingError, and optimize and the
\* Django / Flask / FastAPI response methods raise ImageFormatError with no
\* operation run.
C29_ErrorPrecedence ==
    ( /\ last # NoOutput
      /\ HasFailingOperation
      /\ Unresolvable(last.call.path) )
    => /\ last.call.method \in ExecuteFirstMethods =>
            /\ last.status = "ImageProcessingError"
            /\ last.start # NoBuf
            /\ last.failed > 0
       /\ last.call.method \in ResolveFirstMethods =>
            /\ last.status = "ImageFormatError"
            /\ last.start = NoBuf
            /\ last.trace = <<>>

\* C29 witness: crop, then a watermark whose file is missing; the Flask
\* response method stops at the format without running the crop.
C29_Witness ==
    /\ last # NoOutput
    /\ last.call.method = "to_flask_response"
    /\ Len(pipeline) = 2
    /\ pipeline[1].name = "crop"
    /\ HasFailingOperation
    /\ Unresolvable(last.call.path)
    /\ last.status = "ImageFormatError"
    /\ last.trace = <<>>

\* save has exited: it returned its list or an exception left it.
SaveExited == b_main.pc \in {"returned", "raised"}

\* The tasks whose _process_one raised.
FailedTasks == {i \in DOMAIN b_tasks : b_tasks[i].pc = "failed"}

\* The file task i is to write is on disk.
OutputWritten(i) ==
    \E f \in b_heap.written : f.path = OutPath(b_args.pattern, b_batch.paths[i])

\* C30: when save(parallel=True) has exited and some image's task raised,
\* save left with that error and returned no list, every image's task was
\* submitted and has finished (none is queued, running or cancelled), and
\* the file of every image other than the failing one has been written.
C30_FailurePropagatesAfterAllRan ==
    ( /\ b_args.parallel
      /\ SaveExited
      /\ FailedTasks # {} )
    => /\ b_main.pc = "raised"
       /\ b_main.error \in {b_tasks[i].error : i \in FailedTasks}
       /\ b_main.ret = <<>>
       /\ b_main.submitted = Len(b_batch.paths)
       /\ \A i \in DOMAIN b_tasks : Finished(i)
       /\ \A i \in DOMAIN b_tasks \ FailedTasks :
             /\ b_tasks[i].pc = "done"
             /\ OutputWritten(i)

\* C30 witness: a parallel save of a.jpg and the undecodable c.jpg; the
\* failure was handed over before the result of a.jpg, and a.jpg's file
\* is written when the error leaves save.
C30_Witness ==
    /\ b_args.parallel
    /\ b_main.pc = "raised"
    /\ b_main.error = "ImageLoadError"
    /\ Len(b_batch.paths) = 2
    /\ FailedTasks = {2}
    /\ b_main.results = <<>>
    /\ b_tasks[1].pc = "done"
    /\ OutputWritten(1)

====
